---- MODULE Spec2Model ----
(***************************************************************************)
(* Interaction recording engine of the documentation extension.            *)
(*                                                                         *)
(* The engine is the recording/ modules: the state store (state.ts), the   *)
(* event handlers (event-handlers.ts), step capture (step-capture.ts),     *)
(* navigation detection (navigation-detection.ts) and the controller       *)
(* (recording-controller.ts).  The message listener and the load-time      *)
(* resume exist only in the content script (content.ts); they are modelled *)
(* acting on the engine's state store.  The capture backend is the         *)
(* background service worker (background.ts) and the session is started    *)
(* and stopped by the popup.                                               *)
(*                                                                         *)
(* One content-script context is modelled.  Its tab is either the tab the  *)
(* popup records (OwnerTab) or another tab that shares chrome.storage.     *)
(* JavaScript runs handlers to completion: one action is one run of a      *)
(* handler or of the continuation after an await that yields to the event  *)
(* loop.  An await that settles in a microtask does not yield to other     *)
(* handlers and stays inside the action.                                   *)
(***************************************************************************)
EXTENDS Integers, Sequences, FiniteSets, TLC

\* ------------------------------------------------------------------ bounds
MaxEvents == 2      \* user events (click, input, change, submit, pushState) in Spec
MaxClicks == 3      \* user events in SpecDedup
MaxStarts == 1      \* recordings started from the popup
MaxStale == 1       \* abandoned capture requests that may still be answered
MaxFaults == 1      \* capture requests without an image, rejected writes, reloads
MaxTime == 500      \* the clock advances this far past StartTime (ms)
StartTime == 1000   \* Date.now() when the model starts
MaxCaptures == 2    \* captures in flight at once
MaxShots == 1       \* user events in SpecCapture
MaxLinkClicks == 2  \* user events in SpecLink
MaxInputs == 4      \* input events and script-set values in SpecInput
MaxInputTime == 700 \* the clock advances this far past StartTime in SpecInput (ms)
MaxFormEvents == 2  \* user events in SpecForm
MaxLoadClicks == 2  \* user events in SpecLoad
MaxReloads == 2     \* reloads by the user in SpecLoad
MaxLoadTime == 5000 \* the clock advances this far past StartTime in SpecLoad (ms)
MaxSessions == 2    \* recordings started from the popup in SpecSession
MaxSessionEvents == 2 \* user events in SpecSession
MaxBackgroundEvents == 2 \* user events in SpecBackground
MaxMessages == 2         \* messages the background receives in SpecListener
MaxContentEvents == 2    \* user events in SpecContentTs
MaxElements == 2         \* elements of the document in SpecSelector

\* ------------------------------------------------------- program constants
RapidFireMs == 200          \* rapid-fire window of handleClick
RapidFirePx == 10
DuplicateMs == 500          \* same target and coordinates window
DuplicatePx == 5
NavigationDedupMs == 1000   \* duplicate navigation window
InputDebounceMs == 500      \* debounce of input events
PageLoadSkipMs == 5000      \* validity of the click-caused-navigation flag
maxAttempts == 3            \* screenshot attempts for navigation / page_load
ValueLimit == 100           \* characters of a field's value kept in an input Step

\* ------------------------------------------------------------- vocabulary
NoTab == "no-tab"            \* recordingTabId / currentTabId: null
OwnerTab == "tab1"           \* the tab the popup starts the recording in
OtherTab == "tab2"
Tabs == {OwnerTab, OtherTab}

Urls == {"u0", "u1"}
TitleOf(u) == IF u = "u0" THEN "t0" ELSE "t1"

TickSteps == {150, 350}
\* clientX, clientY of the modelled clicks: apart by less than DuplicatePx, by
\* less than RapidFirePx, and by more
SpecPoints == {<<0, 0>>}
\* the clicks of SpecDedup: an element at three points, another one far from two of them
DedupClicks ==
    {<<"div", 0, 0>>, <<"div", 4, 0>>, <<"div", 12, 8>>, <<"formbtn", 12, 8>>}

\* a screenshot is named by the attempt whose request produced it
NoShot == [req |-> 0]
Null == "null"

(***************************************************************************)
(* The document: the elements events are aimed at, with the properties     *)
(* willNavigate reads.  anchorHref is the href of the element or of its    *)
(* closest anchor (Null when there is none); formElementAction is          *)
(* form.action of the enclosing form, which the browser reports as the     *)
(* document URL when the attribute is absent, so it is set inside a form;  *)
(* formActionProp is the formAction property of a button or input.         *)
(***************************************************************************)
Elements ==
    {"div", "link", "extlink", "formbtn", "field", "field2", "form", "quoted", "quotedbtn"}
ClickTargets == {"div", "link", "extlink", "formbtn"}
FieldTargets == {"field"}
Fields == {"field", "field2"}               \* the fields of the page

\* the value of a field: a text and its length in characters
NoValue == [text |-> "", len |-> 0]
TypedValue == [text |-> "a", len |-> 3]
InputValues ==
    {TypedValue, [text |-> "b", len |-> ValueLimit], [text |-> "c", len |-> ValueLimit + 1]}

\* String.prototype.substring(0, n)
substring(v, n) == IF v.len > n THEN [v EXCEPT !.len = n] ELSE v
FormTargets == {"form"}

Props(tag, href, aTarget, button, typeAttr, inForm, formActionProp) ==
    [tagName |-> tag, anchorHref |-> href, anchorTarget |-> aTarget,
     closestButton |-> button, typeAttr |-> typeAttr, inForm |-> inForm,
     formElementAction |-> inForm, onclick |-> FALSE, formActionProp |-> formActionProp]

ElementProps(e) ==
    CASE e = "div"     -> Props("DIV", Null, "", FALSE, Null, FALSE, FALSE)
      [] e = "link"    -> Props("A", "u1", "", FALSE, Null, FALSE, FALSE)
      [] e = "extlink" -> Props("A", "u1", "_blank", FALSE, Null, FALSE, FALSE)
      [] e = "formbtn" -> Props("BUTTON", Null, "", TRUE, "submit", TRUE, TRUE)
      [] e = "field"   -> Props("INPUT", Null, "", FALSE, "text", TRUE, TRUE)
      [] e = "field2"  -> Props("INPUT", Null, "", FALSE, "text", TRUE, TRUE)
      [] e = "quoted"  -> Props("DIV", Null, "", FALSE, Null, FALSE, FALSE)
      [] e = "quotedbtn" -> Props("BUTTON", Null, "", TRUE, "submit", TRUE, TRUE)
      [] OTHER         -> Props("FORM", Null, "", FALSE, Null, TRUE, FALSE)

(***************************************************************************)
(* getElementInfo rethrows what its try block catches.  getLabel looks up  *)
(* label[for="<id>"] with the raw id: for an element whose id holds a      *)
(* double quote (quoted, quotedbtn) document.querySelector throws a        *)
(* SyntaxError.                                                            *)
(***************************************************************************)
getElementInfoThrows(target) == target \in {"quoted", "quotedbtn"}

VARIABLES
    state,        \* the RecordingState of the state store
    storage,      \* chrome.storage.local
    url,          \* window.location.href
    title,        \* document.title
    fieldValue,   \* element -> the value of the field
    calls,        \* messages the background listener has received
    dom,          \* the document's elements and the selector last generated
    ownTab,       \* the id of the tab this context runs in
    boot,         \* load-time resume: "pending" until the storage callback ran
    tabIdReq,     \* TRUE while the getCurrentTabId request is unanswered
    listening,    \* the five event listeners are attached
    historyHooks, \* wrappers installed around history.pushState/replaceState
    inbox,        \* message from the popup not yet delivered to the listener
    inputTimers,  \* element -> deadline of its _inputTimeout (absent: none)
    pageLoadTimer,\* the setTimeout(0) of startRecording is pending
    captures,     \* captureStep / captureStepWithScreenshot calls in flight
    storageReads, \* captures whose chrome.storage.local.get is queued, in order
    requests,     \* captureScreenshot requests not yet answered
    now,          \* Date.now()
    hist          \* history of the run, read by the properties only

vars == <<state, storage, url, title, fieldValue, calls, dom, ownTab, boot, tabIdReq,
          listening, historyHooks, inbox, inputTimers, pageLoadTimer, captures, storageReads, requests, now, hist>>

\* ------------------------------------------------------------ state store
InitialState(u) ==
    [isRecording |-> FALSE, steps |-> <<>>, stepCounter |-> 0,
     lastClickTime |-> 0, lastClickTarget |-> Null, lastClickCoordinates |-> <<>>,
     currentUrl |-> u, lastActionTime |-> 0, lastActionType |-> Null,
     capturedPageLoads |-> {}, clickCausedNavigation |-> FALSE,
     recordingTabId |-> NoTab, currentTabId |-> NoTab]

\* a reset that keeps the step counter
resetStateKeepingCounter(st, u) ==
    [InitialState(u) EXCEPT !.recordingTabId = st.recordingTabId,
                            !.currentTabId = st.currentTabId,
                            !.stepCounter = st.stepCounter]

resetState(st, u) ==
    [InitialState(u) EXCEPT !.recordingTabId = st.recordingTabId,
                            !.currentTabId = st.currentTabId]

\* ownership taken for granted
isRecordingTabAssumed(st) == TRUE

isRecordingTab(st) ==
    IF st.recordingTabId = NoTab \/ st.currentTabId = NoTab
    THEN TRUE
    ELSE st.recordingTabId = st.currentTabId

\* checkRecordingTab reads storage (and yields) only in this case
checkNeedsStorage(st) == st.recordingTabId # NoTab /\ st.currentTabId = NoTab

\* the result of checkRecordingTab once the storage read (if any) returned
checkRecordingTabResult(st, sto, readStorage) ==
    IF readStorage /\ sto.recordingTabId # NoTab /\ st.currentTabId # NoTab
    THEN sto.recordingTabId = st.currentTabId
    ELSE isRecordingTab(st)

InitialStorage ==
    [isRecording |-> FALSE, steps |-> <<>>, recordingTabId |-> NoTab,
     clickCausedNavigation |-> FALSE, navigationClickTime |-> 0]

\* --------------------------------------------------- navigation detection
\* href.startsWith('#') / href.startsWith('javascript:'): no modelled href does
HrefIsFragmentOrScript(href) == href \in {"#", "javascript:"}

willNavigate(target, u) ==
    LET p == ElementProps(target)
        isLink == p.anchorHref # Null
        href == p.anchorHref
        isLinkNavigation == /\ href # Null
                            /\ href # u
                            /\ ~HrefIsFragmentOrScript(href)
        isButton == p.tagName = "BUTTON" \/ p.closestButton
        isFormSubmit == p.tagName = "INPUT" /\ p.typeAttr = "submit"
        mightNavigate == /\ (isButton \/ isFormSubmit \/ p.inForm)
                         /\ \/ p.typeAttr = "submit"
                            \/ p.formElementAction
                            \/ p.onclick
                            \/ p.formActionProp
    IN  [willNavigate |-> isLinkNavigation \/ mightNavigate,
         linkElement |-> isLink,
         href |-> href,
         blank |-> p.anchorTarget = "_blank"]

\* updateState({clickCausedNavigation}) and the storage write next to it
markClickCausedNavigation(st) == [st EXCEPT !.clickCausedNavigation = TRUE]
markedStorage(sto, t) ==
    [sto EXCEPT !.clickCausedNavigation = TRUE, !.navigationClickTime = t]

clearClickCausedNavigation(st) == [st EXCEPT !.clickCausedNavigation = FALSE]
clearedStorage(sto) ==
    [sto EXCEPT !.clickCausedNavigation = FALSE, !.navigationClickTime = 0]

\* ------------------------------------------------------ click deduplication
Abs(n) == IF n < 0 THEN 0 - n ELSE n

\* the rapid-fire rule without its same-target alternative
rapidFireByDistance(st, target, clickX, clickY, t) ==
    /\ st.lastActionType = "click"
    /\ t - st.lastActionTime < RapidFireMs
    /\ st.lastClickCoordinates # <<>>
    /\ Abs(st.lastClickCoordinates[1] - clickX) < RapidFirePx
    /\ Abs(st.lastClickCoordinates[2] - clickY) < RapidFirePx

\* "More aggressive deduplication" of handleClick
rapidFireDuplicate(st, target, clickX, clickY, t) ==
    /\ st.lastActionType = "click"
    /\ t - st.lastActionTime < RapidFireMs
    /\ \/ st.lastClickTarget = target
       \/ /\ st.lastClickCoordinates # <<>>
          /\ Abs(st.lastClickCoordinates[1] - clickX) < RapidFirePx
          /\ Abs(st.lastClickCoordinates[2] - clickY) < RapidFirePx

\* the proximity rule with the rapid-fire window
traditionalDuplicateShort(st, target, clickX, clickY, t) ==
    /\ st.lastClickTarget = target
    /\ st.lastClickCoordinates # <<>>
    /\ Abs(st.lastClickCoordinates[1] - clickX) < DuplicatePx
    /\ Abs(st.lastClickCoordinates[2] - clickY) < DuplicatePx
    /\ t - st.lastClickTime < RapidFireMs

\* the proximity rule with <= in place of < on the time
traditionalDuplicateInclusive(st, target, clickX, clickY, t) ==
    /\ st.lastClickTarget = target
    /\ st.lastClickCoordinates # <<>>
    /\ Abs(st.lastClickCoordinates[1] - clickX) < DuplicatePx
    /\ Abs(st.lastClickCoordinates[2] - clickY) < DuplicatePx
    /\ t - st.lastClickTime <= DuplicateMs

\* "Traditional deduplication" of handleClick
traditionalDuplicate(st, target, clickX, clickY, t) ==
    /\ st.lastClickTarget = target
    /\ st.lastClickCoordinates # <<>>
    /\ Abs(st.lastClickCoordinates[1] - clickX) < DuplicatePx
    /\ Abs(st.lastClickCoordinates[2] - clickY) < DuplicatePx
    /\ t - st.lastClickTime < DuplicateMs

\* "Update last click info"
clickAccepted(st, target, clickX, clickY, t) ==
    [st EXCEPT !.lastClickTime = t, !.lastActionTime = t, !.lastActionType = "click",
               !.lastClickTarget = target, !.lastClickCoordinates = <<clickX, clickY>>]

\* ------------------------------------------------------------ step capture
(***************************************************************************)
(* A Step.  ev (the arrival number of the event the Step records), evUrl   *)
(* and evTitle (the page's URL and title when that event was handled) are  *)
(* history, not fields of the program's Step.  Of the data payload only    *)
(* the element is kept; the timestamp is left out: no modelled decision    *)
(* reads it.                                                               *)
(***************************************************************************)
Step(c) ==
    [id |-> c.id, action |-> c.action, target |-> c.target, url |-> c.url,
     title |-> c.title, screenshot |-> c.screenshot, value |-> c.value,
     ev |-> c.ev, evUrl |-> c.evUrl, evTitle |-> c.evTitle]

(***************************************************************************)
(* A call of captureStep (path "plain") or of the click handler's link     *)
(* branch with captureStepWithScreenshot (path "link") in flight.  pc is   *)
(* the await it is suspended at:                                           *)
(*   "preshot"  the link branch awaits the captureScreenshot response      *)
(*   "check"    checkRecordingTab awaits chrome.storage.local.get          *)
(*   "shot"     the capture request races its timeout                      *)
(*   "save"     captureStepWithScreenshot awaits chrome.storage.local.set  *)
(*   "navtimer" the 150 ms timer before the programmatic navigation        *)
(* snap is state.steps of the state object read by getState().  evUrl,     *)
(* evTitle, settled, appended and written are history: the page when the   *)
(* event was handled, and how far the link branch has got.                 *)
(***************************************************************************)
NewCapture(e, action, path, pc, target, u, t, nav) ==
    [ev |-> e, action |-> action, path |-> path, pc |-> pc, target |-> target,
     id |-> 0, url |-> u, title |-> t, screenshot |-> NoShot, snap |-> <<>>,
     att |-> 0, saveOk |-> TRUE, href |-> nav.href, blank |-> nav.blank,
     evUrl |-> u, evTitle |-> t, settled |-> FALSE, appended |-> FALSE,
     written |-> FALSE, value |-> NoValue]

NoNav == [willNavigate |-> FALSE, linkElement |-> FALSE, href |-> Null, blank |-> FALSE]

Request(c) == [ev |-> c.ev, att |-> c.att]

\* const state = getState(); stepCounter = state.stepCounter + 1; updateState(...)
nextStepCounter(st) == st.stepCounter + 1

(***************************************************************************)
(* captureStep from "const state = getState()" to its first await that     *)
(* yields: the id is taken, the Step shell is built with the page's URL    *)
(* and title now, and the screenshot function for the action sends its     *)
(* first capture request.  The timers that only delay a request (100 ms,   *)
(* readyState, 300 ms, the pause between attempts) are folded into the     *)
(* request's wait: the call touches nothing of the store while they run.   *)
(***************************************************************************)
captureStepShell(st, c, u, t) ==
    [c EXCEPT !.id = nextStepCounter(st), !.url = u, !.title = t,
              !.snap = st.steps, !.pc = "shot", !.att = 1]

\* the result of calling captureStep(action, data) in state st on page (u, t)
captureStepCall(st, caps, reqs, c, u, t) ==
    IF checkNeedsStorage(st)
    THEN [state |-> st, captures |-> caps \cup {[c EXCEPT !.pc = "check"]}, requests |-> reqs]
    ELSE IF ~isRecordingTab(st)
    THEN [state |-> st, captures |-> caps, requests |-> reqs]
    ELSE LET c1 == captureStepShell(st, c, u, t)
         IN  [state |-> [st EXCEPT !.stepCounter = nextStepCounter(st)],
              captures |-> caps \cup {c1},
              requests |-> reqs \cup {Request(c1)}]

\* const newSteps = [...state.steps, step] with the state object read earlier
newSteps(c) == Append(c.snap, Step(c))

\* ----------------------------------------------------------------- history
(***************************************************************************)
(* hist is the history of the run that the properties read; the program    *)
(* has no such variable.  budget, users and faults bound the run, and      *)
(* budget.script names the content script that runs in it: the modules     *)
(* (part_008 to part_010, recording-controller.ts) or src/src/content.ts,  *)
(* which differ in the array captureStep appends to.  evs                  *)
(* numbers the events in arrival order.  last                              *)
(* is the verdict on the latest event: accepted (the handler went on to    *)
(* capture a Step) and foreign (the context knew its tab id and it         *)
(* differed from the recorded owner's).  accClick keeps, per element, the  *)
(* latest accepted click of this context and session, lastAcc the latest   *)
(* accepted click or navigation, and lastClick compares the latest click   *)
(* with the accepted click before it on the same element.  navigated is    *)
(* the latest programmatic navigation, live the events whose Step was      *)
(* appended since the state store was last reset, imaged the capture       *)
(* requests the backend answered with an image, inputs the latest          *)
(* accepted input event of each field, started the number of events       *)
(* handled before the latest startRecording message began a session,       *)
(* cause what replaced the document last: a reload or the navigation of    *)
(* the click handler's link branch, cleared the events whose Steps the     *)
(* content script held in memory when the popup cleared the steps.         *)
(***************************************************************************)
NoClick == [x |-> 0, y |-> 0, time |-> -1, ev |-> 0]
NoVerdict ==
    [target |-> Null, x |-> 0, y |-> 0, time |-> 0, accepted |-> FALSE,
     prev |-> NoClick, prevIsLast |-> FALSE]
NoEvent == [kind |-> Null, foreign |-> FALSE, accepted |-> FALSE, ev |-> 0]
NoNavigation == [ev |-> 0, settled |-> FALSE, appended |-> FALSE, written |-> FALSE]

\* the most recently accepted action, of any kind
NoAction == [kind |-> "none", time |-> 0, target |-> Null]

InitialHist ==
    [budget |-> [events |-> 0, faults |-> 0, captures |-> 0, time |-> 0, starts |-> 0, script |-> "modules"],
     evs |-> 0, users |-> 0, faults |-> 0,
     load |-> 0, sess |-> 0,
     last |-> NoEvent, accClick |-> [t \in Elements |-> NoClick],
     lastAcc |-> 0, lastClick |-> NoVerdict, navigated |-> NoNavigation, live |-> {},
     imaged |-> {}, inputs |-> [f \in Fields |-> [ev |-> 0, time |-> -1]],
     lastAction |-> NoAction, prevAction |-> NoAction, skipped |-> 0,
     attempted |-> {}, rejected |-> {}, started |-> 0, cause |-> "none",
     cleared |-> {}]

NextEv == hist.evs + 1

knownForeign(st) ==
    /\ st.recordingTabId # NoTab
    /\ st.currentTabId # NoTab
    /\ st.recordingTabId # st.currentTabId

\* the history after an event of this kind was handled
Logged(kind, target, x, y, accepted) ==
    [hist EXCEPT
        !.evs = @ + 1,
        !.users = IF kind = "page_load" THEN @ ELSE @ + 1,
        !.last = [kind |-> kind, foreign |-> knownForeign(state),
                  accepted |-> accepted, ev |-> NextEv],
        !.lastClick = IF kind = "click"
                      THEN [target |-> target, x |-> x, y |-> y, time |-> now,
                            accepted |-> accepted, prev |-> hist.accClick[target],
                            prevIsLast |-> /\ hist.accClick[target].ev > 0
                                           /\ hist.accClick[target].ev = hist.lastAcc]
                      ELSE @,
        !.accClick = IF kind = "click" /\ accepted
                     THEN [@ EXCEPT ![target] =
                              [x |-> x, y |-> y, time |-> now, ev |-> NextEv]]
                     ELSE @,
        !.lastAcc = IF accepted /\ kind \in {"click", "navigation"} THEN NextEv ELSE @,
        !.inputs = IF kind = "input" /\ accepted
                   THEN [@ EXCEPT ![target] = [ev |-> NextEv, time |-> now]]
                   ELSE @,
        !.lastAction = IF accepted
                       THEN [kind |-> kind, time |-> now, target |-> target] ELSE @,
        !.prevAction = IF accepted THEN hist.lastAction ELSE @]

\* the history forgets the clicks of a state store that was reset
Forgotten(h) ==
    [h EXCEPT !.accClick = [t \in Elements |-> NoClick], !.lastAcc = 0, !.live = {},
              !.rejected = {},
              !.last = NoEvent, !.lastClick = NoVerdict, !.lastAction = NoAction,
              !.prevAction = NoAction]

NoTimer == [deadline |-> -1, ev |-> 0]

\* no element of the document was handed to getElementInfo yet
NoDocument == [doc |-> <<>>, element |-> 0, selector |-> <<>>]

\* ------------------------------------------------------------------- Init
\* the content script is injected into a page of tab; b is the budget of the run
Injected(b, tab) ==
    /\ state = InitialState("u0")
    /\ storage = InitialStorage
    /\ url = "u0"
    /\ title = TitleOf("u0")
    /\ calls = {}
    /\ dom = NoDocument
    /\ fieldValue = [e \in Fields |-> NoValue]
    /\ ownTab = tab
    /\ boot = "pending"
    /\ tabIdReq = TRUE
    /\ listening = FALSE
    /\ historyHooks = 0
    /\ inbox = "none"
    /\ inputTimers = [e \in Fields |-> NoTimer]
    /\ pageLoadTimer = FALSE
    /\ captures = {}
    /\ storageReads = <<>>
    /\ requests = {}
    /\ now = StartTime
    /\ hist = [InitialHist EXCEPT !.budget = b]

Init ==
    Injected([events |-> MaxEvents, faults |-> MaxFaults, captures |-> MaxCaptures, time |-> MaxTime,
              starts |-> MaxStarts, script |-> "modules"],
             OwnerTab)

(***************************************************************************)
(* Date.now() advances between handlers.  Only the event handlers and the  *)
(* debounce timer read the clock, and a step of the clock commutes with    *)
(* every other action, so the clock is stepped only where one of them can  *)
(* follow.                                                                 *)
(***************************************************************************)
Tick(d) ==
    /\ now + d <= StartTime + hist.budget.time
    /\ listening
    /\ Cardinality(captures) < hist.budget.captures
    /\ \/ hist.users < hist.budget.events
       \/ \E e \in Fields : inputTimers[e].deadline >= 0
    /\ now' = now + d
    /\ UNCHANGED <<state, storage, url, title, fieldValue, calls, dom, ownTab, boot, tabIdReq, listening,
                   historyHooks, inbox, inputTimers, pageLoadTimer, captures,
                   storageReads, requests, hist>>

\* ------------------------------------------------------ recording controller
\* startRecording(skipPageLoad) on the store st of a page at URL u
startRecording(st, skipPageLoad, u, hooks, timer, lis) ==
    IF st.isRecording
    THEN [state |-> st, listening |-> lis, historyHooks |-> hooks, pageLoadTimer |-> timer]
    ELSE LET st1 == [resetState(st, u) EXCEPT !.isRecording = TRUE]
             capturePageLoad == ~skipPageLoad /\ u \notin st1.capturedPageLoads
         IN  [state |-> IF capturePageLoad
                        THEN [st1 EXCEPT !.capturedPageLoads = @ \cup {u}]
                        ELSE st1,
              listening |-> TRUE,
              historyHooks |-> hooks + 1,
              pageLoadTimer |-> timer \/ capturePageLoad]

\* a stopRecording that leaves the session and its listeners as they are
stopRecordingSkipped(st, hooks, lis) ==
    [state |-> st, listening |-> lis, historyHooks |-> hooks]

(***************************************************************************)
(* stopRecording of the recording controller puts back the history methods *)
(* it saved at start.  stopRecording of content.ts removes the five        *)
(* listeners and leaves history.pushState and replaceState wrapped.        *)
(***************************************************************************)
stopRecording(st, hooks, lis) ==
    IF ~st.isRecording
    THEN [state |-> st, listening |-> lis, historyHooks |-> hooks]
    ELSE [state |-> [st EXCEPT !.isRecording = FALSE],
          listening |-> FALSE,
          historyHooks |-> IF hist.budget.script = "content.ts" THEN hooks
                           ELSE IF hooks > 0 THEN hooks - 1 ELSE 0]

\* ------------------------------------------------------------------ popup
\* handleStartRecording: the storage write, then the message to the recorded tab
PopupStart ==
    /\ hist.sess < hist.budget.starts
    /\ ~storage.isRecording
    /\ inbox = "none"
    /\ storage' = [storage EXCEPT !.isRecording = TRUE, !.steps = <<>>,
                                  !.recordingTabId = OwnerTab]
    /\ inbox' = IF ownTab = OwnerTab THEN "startRecording" ELSE inbox
    /\ hist' = [hist EXCEPT !.sess = @ + 1]
    /\ UNCHANGED <<state, url, title, fieldValue, calls, dom, ownTab, boot, tabIdReq, listening, historyHooks,
                   inputTimers, pageLoadTimer, captures, storageReads, requests, now>>

\* handleStartRecording of the popup without document storage: the owner tab is
\* not written
PopupStartPlain ==
    /\ hist.sess < hist.budget.starts
    /\ ~storage.isRecording
    /\ inbox = "none"
    /\ storage' = [storage EXCEPT !.isRecording = TRUE, !.steps = <<>>]
    /\ inbox' = IF ownTab = OwnerTab THEN "startRecording" ELSE inbox
    /\ hist' = [hist EXCEPT !.sess = @ + 1]
    /\ UNCHANGED <<state, url, title, fieldValue, calls, dom, ownTab, boot, tabIdReq, listening, historyHooks,
                   inputTimers, pageLoadTimer, captures, storageReads, requests, now>>

\* handleStopRecording
PopupStop ==
    /\ storage.isRecording
    /\ inbox = "none"
    /\ storage' = [storage EXCEPT !.isRecording = FALSE]
    /\ inbox' = IF ownTab = OwnerTab THEN "stopRecording" ELSE inbox
    /\ UNCHANGED <<state, url, title, fieldValue, calls, dom, ownTab, boot, tabIdReq, listening, historyHooks,
                   inputTimers, pageLoadTimer, captures, storageReads, requests, now, hist>>

\* handleClearSteps: the persisted steps are set to the empty array
PopupClear ==
    /\ storage' = [storage EXCEPT !.steps = <<>>]
    /\ hist' = [hist EXCEPT !.cleared = @ \cup {state.steps[i].ev : i \in DOMAIN state.steps}]
    /\ UNCHANGED <<state, url, title, fieldValue, calls, dom, ownTab, boot, tabIdReq, listening,
                   historyHooks, inbox, inputTimers, pageLoadTimer, captures, storageReads,
                   requests, now>>

\* ---------------------------------------------------------- content script
\* the sender of the popup's message has no tab
SenderTabs == {NoTab}

\* chrome.runtime.onMessage listener, action startRecording
OnStartRecording(senderTab) ==
    /\ inbox = "startRecording"
    /\ LET st == IF senderTab # NoTab
                 THEN [state EXCEPT !.recordingTabId = senderTab]
                 ELSE state
           r == startRecording(st, FALSE, url, historyHooks, pageLoadTimer, listening)
       IN  /\ state' = r.state
           /\ listening' = r.listening
           /\ historyHooks' = r.historyHooks
           /\ pageLoadTimer' = r.pageLoadTimer
           /\ storage' = IF senderTab # NoTab
                         THEN [storage EXCEPT !.recordingTabId = senderTab]
                         ELSE storage
           /\ hist' = IF state.isRecording THEN hist
                      ELSE [Forgotten(hist) EXCEPT !.started = hist.evs]
    /\ inbox' = "none"
    /\ UNCHANGED <<url, title, fieldValue, calls, dom, ownTab, boot, tabIdReq, inputTimers, captures,
                   storageReads, requests, now>>

\* chrome.runtime.onMessage listener, action stopRecording
OnStopRecording ==
    /\ inbox = "stopRecording"
    /\ LET r == stopRecording(state, historyHooks, listening)
       IN  /\ state' = r.state
           /\ listening' = r.listening
           /\ historyHooks' = r.historyHooks
    /\ inbox' = "none"
    /\ UNCHANGED <<storage, url, title, fieldValue, calls, dom, ownTab, boot, tabIdReq, inputTimers,
                   pageLoadTimer, captures, storageReads, requests, now, hist>>

\* the response to getCurrentTabId: the background answers sender.tab.id
OnCurrentTabId ==
    /\ tabIdReq
    /\ tabIdReq' = FALSE
    /\ state' = [state EXCEPT !.currentTabId = ownTab]
    /\ UNCHANGED <<storage, url, title, fieldValue, calls, dom, ownTab, boot, listening, historyHooks, inbox,
                   inputTimers, pageLoadTimer, captures, storageReads, requests, now, hist>>

\* the load-time storage callback with a validity window that includes its end
wasClickNavigationInclusive(sto, t) ==
    /\ sto.clickCausedNavigation
    /\ sto.navigationClickTime > 0
    /\ t - sto.navigationClickTime <= PageLoadSkipMs

(***************************************************************************)
(* The callback of the load-time chrome.storage.local.get.  chrome.tabs is *)
(* not available to a content script, so the tabs.query fallback throws    *)
(* into its catch and currentTabId stays as it is.                         *)
(***************************************************************************)
wasClickNavigation(sto, t) ==
    /\ sto.clickCausedNavigation
    /\ sto.navigationClickTime > 0
    /\ t - sto.navigationClickTime < PageLoadSkipMs

restoreSteps(st, sto) ==
    [st EXCEPT !.steps = sto.steps, !.stepCounter = Len(sto.steps)]

OnLoadStorage ==
    /\ boot = "pending"
    /\ boot' = "done"
    /\ IF /\ storage.recordingTabId # NoTab
          /\ state.currentTabId # NoTab
          /\ storage.recordingTabId # state.currentTabId
       THEN UNCHANGED <<state, storage, listening, historyHooks, pageLoadTimer, hist>>
       ELSE IF storage.isRecording
       THEN LET st0 == [state EXCEPT !.recordingTabId =
                            IF storage.recordingTabId # NoTab
                            THEN storage.recordingTabId ELSE @,
                                     !.currentUrl = url]
                skip == wasClickNavigation(storage, now)
                r == startRecording(st0, skip, url, historyHooks, pageLoadTimer, listening)
            IN  /\ state' = restoreSteps(r.state, storage)
                /\ storage' = IF skip THEN clearedStorage(storage) ELSE storage
                /\ listening' = r.listening
                /\ historyHooks' = r.historyHooks
                /\ pageLoadTimer' = r.pageLoadTimer
                /\ hist' = IF skip /\ ~state.isRecording
                           THEN [Forgotten(hist) EXCEPT !.skipped = @ + 1]
                           ELSE Forgotten(hist)
       ELSE /\ state' = restoreSteps(state, storage)
            /\ UNCHANGED <<storage, listening, historyHooks, pageLoadTimer, hist>>
    /\ UNCHANGED <<url, title, fieldValue, calls, dom, ownTab, tabIdReq, inbox, inputTimers, captures,
                   storageReads, requests, now>>

\* ---------------------------------------------------------- event handlers
CanCapture == Cardinality(captures) < hist.budget.captures
MoreEvents == hist.users < hist.budget.events

\* a handler that restarts the duplicate windows when it returns early
IgnoredRefreshing(h) ==
    /\ hist' = h
    /\ state' = [state EXCEPT !.lastClickTime = now, !.lastActionTime = now]
    /\ UNCHANGED <<storage, captures, storageReads, requests>>

\* an event the handler returned from without capturing
Ignored(h) ==
    /\ hist' = h
    /\ UNCHANGED <<state, storage, captures, storageReads, requests>>

\* the handler went on to captureStep(action, ...) with the store st
Captured(h, st, action, target) ==
    LET c == NewCapture(NextEv, action, "plain", "shot", target, url', title', NoNav)
        r == captureStepCall(st, captures, requests, c, url', title')
    IN  /\ state' = r.state
        /\ captures' = r.captures
        /\ requests' = r.requests
        /\ storageReads' = IF checkNeedsStorage(st)
                           THEN Append(storageReads, NextEv) ELSE storageReads
        /\ hist' = h

(***************************************************************************)
(* handleClick of createClickHandler.  handleClick of content.ts begins    *)
(* with the isRecording test only: it has no isRecordingTab test.          *)
(***************************************************************************)
handleClick(target, clickX, clickY) ==
    /\ listening
    /\ MoreEvents
    /\ CanCapture
    /\ UNCHANGED <<url, title, fieldValue, calls, dom, ownTab, boot, tabIdReq, listening, historyHooks, inbox,
                   inputTimers, pageLoadTimer, now>>
    /\ IF \/ ~state.isRecording
          \/ hist.budget.script = "modules" /\ ~isRecordingTab(state)
          \/ rapidFireDuplicate(state, target, clickX, clickY, now)
          \/ traditionalDuplicate(state, target, clickX, clickY, now)
       THEN Ignored(Logged("click", target, clickX, clickY, FALSE))
       ELSE LET h == Logged("click", target, clickX, clickY, TRUE)
                nav == willNavigate(target, url)
                st1 == clickAccepted(state, target, clickX, clickY, now)
                st2 == IF nav.willNavigate THEN markClickCausedNavigation(st1) ELSE st1
                sto == IF nav.willNavigate THEN markedStorage(storage, now) ELSE storage
            IN  IF getElementInfoThrows(target)
                THEN \* catch: console.error, return
                     /\ state' = st2
                     /\ storage' = sto
                     /\ hist' = Logged("click", target, clickX, clickY, FALSE)
                     /\ UNCHANGED <<captures, storageReads, requests>>
                ELSE
                IF nav.willNavigate /\ nav.linkElement
                THEN \* preventDefault, stopPropagation, then the capture request
                     LET c == [NewCapture(NextEv, "click", "link", "preshot", target,
                                          url, title, nav) EXCEPT !.att = 1]
                     IN  /\ state' = st2
                         /\ storage' = sto
                         /\ captures' = captures \cup {c}
                         /\ requests' = requests \cup {Request(c)}
                         /\ hist' = h
                         /\ UNCHANGED storageReads
                ELSE /\ storage' = sto
                     /\ Captured(h, st2, "click", target)

\* a handler that leaves a pending timer of the element alone
armInputTimerOnce(timers, target, t, e) ==
    IF timers[target].deadline >= 0
    THEN timers
    ELSE [timers EXCEPT ![target] = [deadline |-> t + InputDebounceMs, ev |-> e]]

\* clearTimeout(_inputTimeout); _inputTimeout = setTimeout(..., 500)
armInputTimer(timers, target, t, e) ==
    [timers EXCEPT ![target] = [deadline |-> t + InputDebounceMs, ev |-> e]]

\* handleInput of createInputHandler: the user changed the field's value to v
handleInput(target, v) ==
    /\ listening
    /\ MoreEvents
    /\ UNCHANGED <<calls, dom>>
    /\ fieldValue' = [fieldValue EXCEPT ![target] = v]
    /\ UNCHANGED <<state, storage, url, title, ownTab, boot, tabIdReq, listening,
                   historyHooks, inbox, pageLoadTimer, captures, storageReads, requests, now>>
    /\ IF ~state.isRecording \/ ~isRecordingTab(state)
       THEN /\ hist' = Logged("input", target, 0, 0, FALSE)
            /\ UNCHANGED inputTimers
       ELSE /\ hist' = Logged("input", target, 0, 0, TRUE)
            /\ inputTimers' = armInputTimer(inputTimers, target, now, NextEv)

\* a script of the page sets the value of a field: no input event is dispatched
\* (followed while the field's debounce timer is pending, where a Step reads it)
SetValue(target, v) ==
    /\ listening
    /\ MoreEvents
    /\ inputTimers[target].deadline >= 0
    /\ fieldValue[target] # v
    /\ UNCHANGED <<calls, dom>>
    /\ fieldValue' = [fieldValue EXCEPT ![target] = v]
    /\ hist' = [hist EXCEPT !.users = @ + 1]
    /\ UNCHANGED <<state, storage, url, title, ownTab, boot, tabIdReq, listening,
                   historyHooks, inbox, inputTimers, pageLoadTimer, captures, storageReads,
                   requests, now>>

\* the debounce timer fires: captureStep('input', ...)
InputTimerFires(target) ==
    /\ inputTimers[target].deadline >= 0
    /\ now >= inputTimers[target].deadline
    /\ CanCapture
    /\ inputTimers' = [inputTimers EXCEPT ![target] = NoTimer]
    /\ LET c == [NewCapture(inputTimers[target].ev, "input", "plain", "shot", target,
                            url, title, NoNav)
                   EXCEPT !.value = substring(fieldValue[target], ValueLimit)]
           r == captureStepCall(state, captures, requests, c, url, title)
       IN  /\ state' = r.state
           /\ captures' = r.captures
           /\ requests' = r.requests
           /\ storageReads' = IF checkNeedsStorage(state)
                              THEN Append(storageReads, c.ev) ELSE storageReads
    /\ UNCHANGED <<storage, url, title, fieldValue, calls, dom, ownTab, boot, tabIdReq, listening,
                   historyHooks, inbox, pageLoadTimer, now, hist>>

\* handleChange of createChangeHandler
handleChange(target) ==
    /\ listening
    /\ MoreEvents
    /\ CanCapture
    /\ UNCHANGED <<storage, url, title, fieldValue, calls, dom, ownTab, boot, tabIdReq, listening, historyHooks,
                   inbox, inputTimers, pageLoadTimer, now>>
    /\ IF ~state.isRecording \/ ~isRecordingTab(state)
       THEN Ignored(Logged("change", target, 0, 0, FALSE))
       ELSE Captured(Logged("change", target, 0, 0, TRUE), state, "change", target)

\* handleSubmit were it to share the rapid-fire filter of the click handler
handleSubmitFiltered(target) ==
    /\ listening
    /\ MoreEvents
    /\ CanCapture
    /\ UNCHANGED <<storage, url, title, fieldValue, calls, dom, ownTab, boot, tabIdReq, listening,
                   historyHooks, inbox, inputTimers, pageLoadTimer, now>>
    /\ IF \/ ~state.isRecording
          \/ ~isRecordingTab(state)
          \/ state.lastActionType = "click" /\ now - state.lastActionTime < RapidFireMs
       THEN Ignored(Logged("submit", target, 0, 0, FALSE))
       ELSE Captured(Logged("submit", target, 0, 0, TRUE), state, "submit", target)

\* handleSubmit of createSubmitHandler
handleSubmit(target) ==
    /\ listening
    /\ MoreEvents
    /\ CanCapture
    /\ UNCHANGED <<storage, url, title, fieldValue, calls, dom, ownTab, boot, tabIdReq, listening, historyHooks,
                   inbox, inputTimers, pageLoadTimer, now>>
    /\ IF ~state.isRecording \/ ~isRecordingTab(state)
       THEN Ignored(Logged("submit", target, 0, 0, FALSE))
       ELSE Captured(Logged("submit", target, 0, 0, TRUE), state, "submit", target)

\* handleNavigation of createNavigationHandler decides to record the new URL u
navigationAccepted(st, u, t) ==
    /\ st.isRecording
    /\ isRecordingTab(st)
    /\ u # st.currentUrl
    /\ ~(st.lastActionType = "navigation" /\ t - st.lastActionTime < NavigationDedupMs)

\* a navigation that records itself as the last action and keeps the last click
navigationUpdateKeepingClick(st, u, t) ==
    LET st1 == [st EXCEPT !.currentUrl = u, !.lastActionTime = t,
                          !.lastActionType = "navigation"]
    IN  IF st.clickCausedNavigation THEN clearClickCausedNavigation(st1) ELSE st1

navigationUpdate(st, u, t) ==
    LET st1 == [st EXCEPT !.currentUrl = u, !.lastClickTime = 0, !.lastClickTarget = Null,
                          !.lastClickCoordinates = <<>>, !.lastActionTime = t,
                          !.lastActionType = "navigation"]
    IN  IF st.clickCausedNavigation THEN clearClickCausedNavigation(st1) ELSE st1

\* the page calls history.pushState / replaceState: the URL changes, then the
\* wrapper installed by startRecording calls handleNavigation
PushState(u) ==
    /\ MoreEvents
    /\ CanCapture
    /\ url' = u
    /\ title' = TitleOf(u)
    /\ UNCHANGED <<fieldValue, calls, dom>>
    /\ UNCHANGED <<ownTab, boot, tabIdReq, listening, historyHooks, inbox, inputTimers,
                   pageLoadTimer, now>>
    /\ IF historyHooks > 0 /\ navigationAccepted(state, u, now)
       THEN /\ storage' = IF state.clickCausedNavigation
                          THEN clearedStorage(storage) ELSE storage
            /\ Captured(Logged("navigation", Null, 0, 0, TRUE),
                        navigationUpdate(state, u, now), "navigation", Null)
       ELSE /\ UNCHANGED storage
            /\ Ignored(Logged("navigation", Null, 0, 0, FALSE))

\* the setTimeout(0) of startRecording: captureStep('page_load', ...)
PageLoadTimerFires ==
    /\ pageLoadTimer
    /\ CanCapture
    /\ pageLoadTimer' = FALSE
    /\ UNCHANGED <<storage, url, title, fieldValue, calls, dom, ownTab, boot, tabIdReq, listening, historyHooks,
                   inbox, inputTimers, now>>
    /\ Captured(Logged("page_load", Null, 0, 0, TRUE), state, "page_load", Null)

\* ------------------------------------------------------- capture in flight
(***************************************************************************)
(* The continuations below are written as functions from the variables     *)
(* they touch (a record w) to their next values; an action commits one.    *)
(***************************************************************************)
World ==
    [state |-> state, storage |-> storage, captures |-> captures,
     storageReads |-> storageReads, requests |-> requests, hist |-> hist]

Commit(w) ==
    /\ state' = w.state
    /\ storage' = w.storage
    /\ captures' = w.captures
    /\ storageReads' = w.storageReads
    /\ requests' = w.requests
    /\ hist' = w.hist

Replace(caps, c, c1) == (caps \ {c}) \cup {c1}

(***************************************************************************)
(* The environment's faults are counted against the run's budget: a        *)
(* capture request answered by null or an error or not in time, a storage  *)
(* write rejected, the page reloaded under the running script.             *)
(***************************************************************************)
MoreFaults == hist.faults < hist.budget.faults
Faulted(w) == [w EXCEPT !.hist = [@ EXCEPT !.faults = @ + 1]]
WriteResults == IF MoreFaults THEN BOOLEAN ELSE {TRUE}
Failed(w, ok) == IF ok THEN w ELSE Faulted(w)

\* chrome.storage.local.set({steps}): the write succeeds or is rejected
written(sto, steps, ok) == IF ok THEN [sto EXCEPT !.steps = steps] ELSE sto

(***************************************************************************)
(* captureStep after its screenshot function returned: the Step is         *)
(* appended to the steps of the state object read before the await and     *)
(* the array is written to storage; captureStep of src/src/content.ts      *)
(* pushes the Step onto the steps array of the script instead.  What       *)
(* follows the write is the stepCaptured notification only, so the call    *)
(* ends here.                                                              *)
(***************************************************************************)
\* an append that keeps the steps sorted by id
appendStepSorted(w, c, ok) ==
    LET before(s) == s.id < c.id
        after(s) == s.id >= c.id
        steps == SelectSeq(w.state.steps, before) \o <<Step(c)>>
                    \o SelectSeq(w.state.steps, after)
    IN
    [Failed(w, ok) EXCEPT !.state = [@ EXCEPT !.steps = steps],
              !.storage = written(@, steps, ok),
              !.captures = {cc \in @ : cc.ev # c.ev},
              !.hist = [@ EXCEPT !.live = @ \cup {c.ev},
                                 !.rejected = IF ok THEN @ ELSE @ \cup {c.ev}]]

\* an append that puts the in-memory steps back when its write is rejected
appendStepRolledBack(w, c, ok) ==
    [Failed(w, ok) EXCEPT !.state = [@ EXCEPT !.steps = IF ok THEN newSteps(c) ELSE @],
              !.storage = written(@, newSteps(c), ok),
              !.captures = {cc \in @ : cc.ev # c.ev},
              !.hist = [@ EXCEPT !.live = @ \cup {c.ev},
                                 !.rejected = IF ok THEN @ ELSE @ \cup {c.ev}]]

appendStep(w, c, ok) ==
    LET steps == IF w.hist.budget.script = "content.ts"
                 THEN Append(w.state.steps, Step(c)) ELSE newSteps(c)
    IN
    [Failed(w, ok) EXCEPT !.state = [@ EXCEPT !.steps = steps],
              !.storage = written(@, steps, ok),
              !.captures = {cc \in @ : cc.ev # c.ev},
              !.hist = [@ EXCEPT !.live = @ \cup {c.ev},
                                 !.rejected = IF ok THEN @ ELSE @ \cup {c.ev}]]

\* a retry loop that compares the attempts with <= instead of <
shotSettledOnceMore(w, c, shot, ok) ==
    LET c1 == IF shot # NoShot THEN [c EXCEPT !.screenshot = shot] ELSE c
    IN  IF /\ c.action \in {"navigation", "page_load"}
           /\ shot = NoShot
           /\ c.att <= maxAttempts
        THEN LET c2 == [c1 EXCEPT !.att = @ + 1]
             IN  [w EXCEPT !.captures = Replace(@, c, c2),
                           !.requests = @ \cup {Request(c2)}]
        ELSE appendStep(w, c1, ok)

\* a retry loop in the screenshot function of every action
shotSettledEveryAction(w, c, shot, ok) ==
    LET c1 == IF shot # NoShot THEN [c EXCEPT !.screenshot = shot] ELSE c
    IN  IF /\ shot = NoShot
           /\ c.att < maxAttempts
        THEN LET c2 == [c1 EXCEPT !.att = @ + 1]
             IN  [w EXCEPT !.captures = Replace(@, c, c2),
                           !.requests = @ \cup {Request(c2)}]
        ELSE appendStep(w, c1, ok)

(***************************************************************************)
(* The screenshot function of captureStep got its answer (shot is NoShot   *)
(* for a null response, a runtime error or a timeout).  A navigation or    *)
(* page_load capture without an image sends the next request while         *)
(* attempts remain.                                                        *)
(***************************************************************************)
shotSettled(w, c, shot, ok) ==
    LET c1 == IF shot # NoShot THEN [c EXCEPT !.screenshot = shot] ELSE c
    IN  IF /\ c.action \in {"navigation", "page_load"}
           /\ shot = NoShot
           /\ c.att < maxAttempts
        THEN LET c2 == [c1 EXCEPT !.att = @ + 1]
             IN  [w EXCEPT !.captures = Replace(@, c, c2),
                           !.requests = @ \cup {Request(c2)}]
        ELSE appendStep(w, c1, ok)

\* the link branch after "await captureStepWithScreenshot" returned: setTimeout(150)
armNavigation(w, c) ==
    [w EXCEPT !.captures = (@ \ {cc \in @ : cc.ev = c.ev}) \cup {[c EXCEPT !.pc = "navtimer"]}]

\* captureStepWithScreenshot that does not wait for its storage write
appendStepNotAwaited(w, c, ok) ==
    LET c1 == [c EXCEPT !.id = nextStepCounter(w.state), !.snap = w.state.steps,
                        !.pc = "navtimer", !.saveOk = ok, !.appended = TRUE]
    IN  [Failed(w, ok) EXCEPT !.state = [@ EXCEPT !.stepCounter = nextStepCounter(w.state),
                                      !.steps = newSteps(c1)],
                  !.storage = written(@, newSteps(c1), ok),
                  !.captures = Replace(@, c, c1)]

(***************************************************************************)
(* captureStepWithScreenshot once checkRecordingTab returned true: id,     *)
(* Step with the URL and title handed over by the click handler, append,   *)
(* write; the call then awaits the write.                                  *)
(***************************************************************************)
appendStepWithScreenshot(w, c, ok) ==
    LET c1 == [c EXCEPT !.id = nextStepCounter(w.state), !.snap = w.state.steps,
                        !.pc = "save", !.saveOk = ok, !.appended = TRUE]
    IN  [Failed(w, ok) EXCEPT !.state = [@ EXCEPT !.stepCounter = nextStepCounter(w.state),
                                      !.steps = newSteps(c1)],
                  !.storage = written(@, newSteps(c1), ok),
                  !.captures = Replace(@, c, c1),
                  !.hist = [@ EXCEPT !.live = @ \cup {c.ev},
                                     !.rejected = IF ok THEN @ ELSE @ \cup {c.ev}]]

\* captureStepWithScreenshot after checkRecordingTab answered
withScreenshotChecked(w, c, isOwner, ok) ==
    IF isOwner THEN appendStepWithScreenshot(w, c, ok) ELSE armNavigation(w, c)

\* the callback of the link branch's capture request
preshotSettled(w, c, shot, ok) ==
    LET c1 == [c EXCEPT !.screenshot = shot, !.settled = TRUE]
        w1 == [w EXCEPT !.captures = Replace(@, c, c1)]
    IN  IF checkNeedsStorage(w.state)
        THEN [w1 EXCEPT !.captures = Replace(@, c1, [c1 EXCEPT !.pc = "check"]),
                        !.storageReads = Append(@, c.ev)]
        ELSE withScreenshotChecked(w1, c1, isRecordingTab(w.state), ok)

\* chrome.storage.local.get of checkRecordingTab returns to the capture at the head
CheckReturns(c) ==
    /\ storageReads # <<>>
    /\ c \in captures
    /\ c.ev = Head(storageReads)
    /\ c.pc = "check"
    /\ UNCHANGED <<url, title, fieldValue, calls, dom, ownTab, boot, tabIdReq, listening, historyHooks, inbox,
                   inputTimers, pageLoadTimer, now>>
    /\ LET w == [World EXCEPT !.storageReads = Tail(@)]
           isOwner == checkRecordingTabResult(state, storage, TRUE)
       IN  IF c.path = "link"
           THEN \E ok \in WriteResults : Commit(withScreenshotChecked(w, c, isOwner, ok))
           ELSE IF ~isOwner
           THEN Commit([w EXCEPT !.captures = @ \ {c}])
           ELSE LET c1 == captureStepShell(state, c, url, title)
                IN  Commit([w EXCEPT
                        !.state = [@ EXCEPT !.stepCounter = nextStepCounter(state)],
                        !.captures = Replace(@, c, c1),
                        !.requests = @ \cup {Request(c1)}])

\* requests that no capture is waiting for any more
Stale(reqs, caps) ==
    {r \in reqs : ~\E c \in caps : /\ c.ev = r.ev /\ c.att = r.att
                                    /\ c.pc \in {"shot", "preshot"}}

(***************************************************************************)
(* The request of c is abandoned, not cancelled: it stays pending and may  *)
(* be answered later.  Beyond MaxStale such requests it is taken as never  *)
(* answered.                                                               *)
(***************************************************************************)
abandoned(reqs, caps, c) ==
    IF Cardinality(Stale(reqs, caps)) < MaxStale THEN reqs ELSE reqs \ {Request(c)}

\* a request timeout that only the retry loop of navigation captures arms
ShotTimeoutRetryOnly(c) ==
    /\ c \in captures
    /\ c.pc = "shot"
    /\ c.action \in {"navigation", "page_load"}
    /\ MoreFaults
    /\ Commit(shotSettled(Faulted([World EXCEPT !.requests = abandoned(@, captures, c)]),
                          c, NoShot, TRUE))
    /\ UNCHANGED <<url, title, fieldValue, calls, dom, ownTab, boot, tabIdReq, listening, historyHooks, inbox,
                   inputTimers, pageLoadTimer, now>>

\* the timeout that races the capture request fires; the request stays pending
ShotTimeout(c) ==
    /\ c \in captures
    /\ c.pc = "shot"
    /\ MoreFaults
    /\ Commit(shotSettled(Faulted([World EXCEPT !.requests = abandoned(@, captures, c)]),
                          c, NoShot, TRUE))
    /\ UNCHANGED <<url, title, fieldValue, calls, dom, ownTab, boot, tabIdReq, listening, historyHooks, inbox,
                   inputTimers, pageLoadTimer, now>>

(***************************************************************************)
(* The background answers a captureScreenshot request (or the runtime      *)
(* reports lastError).  It captures only when no owner is recorded or the  *)
(* sender is the owner.                                                    *)
(***************************************************************************)
Outcomes == {"image", "null", "error"}

\* the listener goes on to captureScreenshot(tabId) for this sender
backendCaptures(sto, sender) ==
    ~(sto.recordingTabId # NoTab /\ sto.recordingTabId # sender)

backendAnswer(sto, sender, out, att) ==
    IF out = "image" /\ (sto.recordingTabId = NoTab \/ sto.recordingTabId = sender)
    THEN [req |-> att]
    ELSE NoShot

\* the callback of a request whose promise is already settled: resolve() is a no-op
lateResponseApplied(w, r, shot) ==
    IF shot = NoShot
    THEN w
    ELSE [w EXCEPT
             !.state = [@ EXCEPT !.steps =
                           [i \in DOMAIN @ |->
                               IF @[i].ev = r.ev
                               THEN [@[i] EXCEPT !.screenshot = shot] ELSE @[i]]],
             !.captures = {IF c.ev = r.ev THEN [c EXCEPT !.screenshot = shot] ELSE c :
                              c \in @}]

lateResponse(w, r, shot) == w

BackendResponds(r, out) ==
    /\ r \in requests
    /\ out = "image" \/ MoreFaults \/ r \in Stale(requests, captures)
    /\ UNCHANGED <<url, title, fieldValue, calls, dom, ownTab, boot, tabIdReq, listening, historyHooks, inbox,
                   inputTimers, pageLoadTimer, now>>
    /\ LET shot == backendAnswer(storage, ownTab, out, r.att)
           w0 == [World EXCEPT !.requests = @ \ {r},
                               !.hist = [@ EXCEPT
                                   !.imaged = IF shot # NoShot THEN @ \cup {r} ELSE @,
                                   !.attempted = IF backendCaptures(storage, ownTab)
                                                 THEN @ \cup {r} ELSE @]]
           cur == {c \in captures : c.ev = r.ev /\ c.att = r.att
                                    /\ c.pc \in {"shot", "preshot"}}
           w == IF out = "image" \/ cur = {} THEN w0 ELSE Faulted(w0)
           results == IF out = "image" THEN WriteResults ELSE {TRUE}
       IN  IF cur = {}
           THEN Commit(lateResponse(w, r, shot))
           ELSE \E c \in cur : \E ok \in results :
                    IF c.pc = "preshot"
                    THEN Commit(preshotSettled(w, c, shot, ok))
                    ELSE Commit(shotSettled(w, c, shot, ok))

\* chrome.storage.local.set of captureStepWithScreenshot settles
SaveSettles(c) ==
    /\ c \in captures
    /\ c.pc = "save"
    /\ IF c.saveOk
       THEN Commit(armNavigation(World, [c EXCEPT !.written = TRUE]))
       ELSE Commit([World EXCEPT !.captures = @ \ {c}])
    /\ UNCHANGED <<url, title, fieldValue, calls, dom, ownTab, boot, tabIdReq, listening, historyHooks, inbox,
                   inputTimers, pageLoadTimer, now>>

\* ------------------------------------------------------ leaving the page
(***************************************************************************)
(* The document is replaced by the one at URL u: beforeunload runs         *)
(* handleNavigation if attached (only its storage write outlives the       *)
(* page), the context and everything pending in it are gone, and the       *)
(* content script starts again in the new document.                        *)
(***************************************************************************)
unloadStorage(sto) ==
    LET s1 == IF listening /\ navigationAccepted(state, url, now)
                 /\ state.clickCausedNavigation
              THEN clearedStorage(sto) ELSE sto
    IN  IF inbox = "startRecording" THEN [s1 EXCEPT !.isRecording = FALSE] ELSE s1

NewDocument(u) ==
    /\ state' = InitialState(u)
    /\ storage' = unloadStorage(storage)
    /\ url' = u
    /\ title' = TitleOf(u)
    /\ UNCHANGED <<calls, dom>>
    /\ fieldValue' = [e \in Fields |-> NoValue]
    /\ boot' = "pending"
    /\ tabIdReq' = TRUE
    /\ listening' = FALSE
    /\ historyHooks' = 0
    /\ inbox' = "none"
    /\ inputTimers' = [e \in Fields |-> NoTimer]
    /\ pageLoadTimer' = FALSE
    /\ captures' = {}
    /\ storageReads' = <<>>
    /\ requests' = {}
    /\ UNCHANGED <<ownTab, now>>

\* the user reloads or the page navigates by itself (form submit, default link)
Reload(u) ==
    /\ hist.faults < hist.budget.faults
    /\ NewDocument(u)
    /\ hist' = [Forgotten(hist) EXCEPT !.faults = @ + 1, !.load = @ + 1, !.cause = "reload"]

Performed(c) ==
    [ev |-> c.ev, settled |-> c.settled, appended |-> c.appended, written |-> c.written]

\* the 150 ms timer of the link branch fires: window.open or location.href = href
Navigate(c) ==
    /\ c \in captures
    /\ c.pc = "navtimer"
    /\ IF c.blank
       THEN /\ captures' = captures \ {c}
            /\ hist' = [hist EXCEPT !.navigated = Performed(c)]
            /\ UNCHANGED <<state, storage, url, title, fieldValue, calls, dom, ownTab, boot, tabIdReq, listening,
                           historyHooks, inbox, inputTimers, pageLoadTimer, storageReads,
                           requests, now>>
       ELSE /\ NewDocument(c.href)
            /\ hist' = [Forgotten(hist) EXCEPT !.navigated = Performed(c), !.load = @ + 1,
                                                !.cause = "click"]

\* ------------------------------------------------------------------- Next
Next ==
    \/ PopupStart
    \/ \E s \in SenderTabs : OnStartRecording(s)
    \/ OnCurrentTabId
    \/ OnLoadStorage
    \/ \E t \in ClickTargets, p \in SpecPoints : handleClick(t, p[1], p[2])
    \/ \E t \in FieldTargets : handleChange(t)
    \/ \E u \in Urls : PushState(u)
    \/ PageLoadTimerFires
    \/ \E c \in captures : CheckReturns(c)
    \/ \E c \in captures : ShotTimeout(c)
    \/ \E r \in requests, out \in Outcomes : BackendResponds(r, out)
    \/ \E c \in captures : SaveSettles(c)
    \/ Reload(url)
    \/ \E c \in captures : Navigate(c)

Spec == Init /\ [][Next]_vars

(***************************************************************************)
(* Spec is the page of the tab the popup records.  SpecForeign is a page   *)
(* of another tab while that recording runs: it sees the persisted         *)
(* isRecording flag and learns its own tab id from the background.  Its    *)
(* events are of every kind; the backend always answers and one capture    *)
(* runs at a time.                                                         *)
(***************************************************************************)
InitForeign == Injected([events |-> MaxEvents, faults |-> 0, captures |-> 1, time |-> MaxTime,
              starts |-> MaxStarts, script |-> "modules"], OtherTab)

NextForeign ==
    \/ \E d \in TickSteps : Tick(d)
    \/ PopupStart
    \/ OnCurrentTabId
    \/ OnLoadStorage
    \/ \E t \in {"div", "link"}, p \in SpecPoints : handleClick(t, p[1], p[2])
    \/ \E t \in FieldTargets : handleInput(t, TypedValue)
    \/ \E t \in FieldTargets : InputTimerFires(t)
    \/ \E t \in FieldTargets : handleChange(t)
    \/ \E t \in FormTargets : handleSubmit(t)
    \/ \E u \in Urls : PushState(u)
    \/ PageLoadTimerFires
    \/ \E c \in captures : CheckReturns(c)
    \/ \E r \in requests : BackendResponds(r, "image")
    \/ \E c \in captures : SaveSettles(c)
    \/ \E c \in captures : Navigate(c)

SpecForeign == InitForeign /\ [][NextForeign]_vars

(***************************************************************************)
(* The click deduplication is exercised by a second specification: clicks  *)
(* at several points, the clock and more events, in the owner's page once  *)
(* its two load-time callbacks have run, with a capture backend that       *)
(* always answers, one capture at a time and no page reload.               *)
(***************************************************************************)
InitDedup ==
    /\ state = [InitialState("u0") EXCEPT !.currentTabId = OwnerTab]
    /\ storage = InitialStorage
    /\ url = "u0"
    /\ title = TitleOf("u0")
    /\ calls = {}
    /\ dom = NoDocument
    /\ fieldValue = [e \in Fields |-> NoValue]
    /\ ownTab = OwnerTab
    /\ boot = "done"
    /\ tabIdReq = FALSE
    /\ listening = FALSE
    /\ historyHooks = 0
    /\ inbox = "none"
    /\ inputTimers = [e \in Fields |-> NoTimer]
    /\ pageLoadTimer = FALSE
    /\ captures = {}
    /\ storageReads = <<>>
    /\ requests = {}
    /\ now = StartTime
    /\ hist = [InitialHist EXCEPT
                   !.budget = [events |-> MaxClicks, faults |-> 0, captures |-> 1, time |-> MaxTime,
              starts |-> MaxStarts, script |-> "modules"]]

NextDedup ==
    \/ \E d \in TickSteps : Tick(d)
    \/ PopupStart
    \/ \E s \in SenderTabs : OnStartRecording(s)
    \/ \E k \in DedupClicks : handleClick(k[1], k[2], k[3])
    \/ \E t \in FormTargets : handleSubmit(t)
    \/ \E u \in Urls : PushState(u)
    \/ PageLoadTimerFires
    \/ \E r \in requests : BackendResponds(r, "image")

SpecDedup == InitDedup /\ [][NextDedup]_vars

(***************************************************************************)
(* The screenshot functions of captureStep are exercised by a fourth       *)
(* specification: one capture at a time in the owner's booted page, every  *)
(* action kind, and a backend free to answer each request with an image,   *)
(* with null, with a runtime error, late or never.  The fault budget is    *)
(* the most the captures of a run can consume, so a timer is never         *)
(* held back.  setTimeout callbacks run once their delay has passed:       *)
(* the timeout of a pending capture request is weakly fair.  Nothing is    *)
(* assumed of the backend.                                                 *)
(***************************************************************************)
InitCapture ==
    /\ state = [InitialState("u0") EXCEPT !.currentTabId = OwnerTab]
    /\ storage = InitialStorage
    /\ url = "u0"
    /\ title = TitleOf("u0")
    /\ calls = {}
    /\ dom = NoDocument
    /\ fieldValue = [e \in Fields |-> NoValue]
    /\ ownTab = OwnerTab
    /\ boot = "done"
    /\ tabIdReq = FALSE
    /\ listening = FALSE
    /\ historyHooks = 0
    /\ inbox = "none"
    /\ inputTimers = [e \in Fields |-> NoTimer]
    /\ pageLoadTimer = FALSE
    /\ captures = {}
    /\ storageReads = <<>>
    /\ requests = {}
    /\ now = StartTime
    /\ hist = [InitialHist EXCEPT
                   !.budget = [events |-> MaxShots,
                               faults |-> (MaxShots + MaxStarts) * (maxAttempts + 1),
                               captures |-> 1, time |-> MaxTime,
              starts |-> MaxStarts, script |-> "modules"]]

NextCapture ==
    \/ \E d \in TickSteps : Tick(d)
    \/ PopupStart
    \/ \E s \in SenderTabs : OnStartRecording(s)
    \/ \E t \in {"div"} : \E p \in SpecPoints : handleClick(t, p[1], p[2])
    \/ \E t \in FieldTargets : handleInput(t, TypedValue)
    \/ \E t \in FieldTargets : InputTimerFires(t)
    \/ \E t \in FieldTargets : handleChange(t)
    \/ \E t \in FormTargets : handleSubmit(t)
    \/ \E u \in Urls : PushState(u)
    \/ PageLoadTimerFires
    \/ \E c \in captures : ShotTimeout(c)
    \/ \E r \in requests : \E out \in Outcomes : BackendResponds(r, out)

ShotTimeouts == \E c \in captures : ShotTimeout(c)

SpecCapture == InitCapture /\ [][NextCapture]_vars /\ WF_vars(ShotTimeouts)

(***************************************************************************)
(* The link branch of the click handler is exercised by a fifth            *)
(* specification: link clicks in the owner's booted page, one capture at   *)
(* a time, a backend free to answer or not, one fault.  Timers fire and    *)
(* chrome.storage calls settle: the 150 ms navigation timer, the request   *)
(* timeout, the storage read of checkRecordingTab and the storage write    *)
(* are weakly fair.  Nothing is assumed of the capture backend.            *)
(***************************************************************************)
InitLink ==
    /\ state = [InitialState("u0") EXCEPT !.currentTabId = OwnerTab]
    /\ storage = InitialStorage
    /\ url = "u0"
    /\ title = TitleOf("u0")
    /\ calls = {}
    /\ dom = NoDocument
    /\ fieldValue = [e \in Fields |-> NoValue]
    /\ ownTab = OwnerTab
    /\ boot = "done"
    /\ tabIdReq = FALSE
    /\ listening = FALSE
    /\ historyHooks = 0
    /\ inbox = "none"
    /\ inputTimers = [e \in Fields |-> NoTimer]
    /\ pageLoadTimer = FALSE
    /\ captures = {}
    /\ storageReads = <<>>
    /\ requests = {}
    /\ now = StartTime
    /\ hist = [InitialHist EXCEPT
                   !.budget = [events |-> MaxLinkClicks, faults |-> MaxFaults,
                               captures |-> 1, time |-> MaxTime,
              starts |-> MaxStarts, script |-> "modules"]]

NavigationTimers == \E c \in captures : Navigate(c)
StorageReads == \E c \in captures : CheckReturns(c)
StorageWrites == \E c \in captures : SaveSettles(c)

NextLink ==
    \/ PopupStart
    \/ \E s \in SenderTabs : OnStartRecording(s)
    \/ OnCurrentTabId
    \/ OnLoadStorage
    \/ \E t \in {"link", "extlink"} : \E p \in SpecPoints : handleClick(t, p[1], p[2])
    \/ PageLoadTimerFires
    \/ StorageReads
    \/ ShotTimeouts
    \/ \E r \in requests : \E out \in Outcomes : BackendResponds(r, out)
    \/ StorageWrites
    \/ NavigationTimers

SpecLink ==
    /\ InitLink /\ [][NextLink]_vars
    /\ WF_vars(NavigationTimers) /\ WF_vars(ShotTimeouts)
    /\ WF_vars(StorageReads) /\ WF_vars(StorageWrites)

(***************************************************************************)
(* The input debounce is exercised by a sixth specification: input events  *)
(* on two fields of the owner's booted page with values up to one          *)
(* character beyond the limit, a script that sets values without an        *)
(* event, the clock, one capture at a time and a backend that answers.     *)
(***************************************************************************)
InitInput ==
    /\ state = [InitialState("u0") EXCEPT !.currentTabId = OwnerTab]
    /\ storage = InitialStorage
    /\ url = "u0"
    /\ title = TitleOf("u0")
    /\ calls = {}
    /\ dom = NoDocument
    /\ fieldValue = [e \in Fields |-> NoValue]
    /\ ownTab = OwnerTab
    /\ boot = "done"
    /\ tabIdReq = FALSE
    /\ listening = FALSE
    /\ historyHooks = 0
    /\ inbox = "none"
    /\ inputTimers = [e \in Fields |-> NoTimer]
    /\ pageLoadTimer = FALSE
    /\ captures = {}
    /\ storageReads = <<>>
    /\ requests = {}
    /\ now = StartTime
    /\ hist = [InitialHist EXCEPT
                   !.budget = [events |-> MaxInputs, faults |-> 0, captures |-> 1,
                               time |-> MaxInputTime,
              starts |-> MaxStarts, script |-> "modules"]]

NextInput ==
    \/ \E d \in TickSteps : Tick(d)
    \/ PopupStart
    \/ \E s \in SenderTabs : OnStartRecording(s)
    \/ \E t \in Fields : \E v \in InputValues : handleInput(t, v)
    \/ \E t \in Fields : \E v \in InputValues : SetValue(t, v)
    \/ \E t \in Fields : InputTimerFires(t)
    \/ PageLoadTimerFires
    \/ \E r \in requests : BackendResponds(r, "image")

SpecInput == InitInput /\ [][NextInput]_vars

\* ================================================================== claims
\* ids of the Steps of an array, with multiplicity
Distinct(steps) ==
    \A i, j \in DOMAIN steps : steps[i].id = steps[j].id => i = j

(***************************************************************************)
(* C1: within a recording session no two Steps carry the same sequence id, *)
(* neither in the in-memory steps nor in the persisted steps, also after a *)
(* reload in mid-session that restores the counter as the length of the    *)
(* persisted array.                                                        *)
(***************************************************************************)
C1_SequenceIdsUnique ==
    /\ Distinct(state.steps)
    /\ Distinct(storage.steps)

(***************************************************************************)
(* C2: in the owning context the programmatic navigation of a link click   *)
(* (location.href = href, or window.open) is never performed before the    *)
(* click's capture request has settled, its Step has been appended and the *)
(* storage write of the steps has completed.                               *)
(***************************************************************************)
C2_NavigationAfterCapture ==
    (hist.navigated.ev # 0 /\ ownTab = OwnerTab) =>
        /\ hist.navigated.settled
        /\ hist.navigated.appended
        /\ hist.navigated.written

\* a link click of the owning context was navigated, its Step written before
C2_Navigated ==
    /\ ownTab = OwnerTab
    /\ hist.navigated.ev # 0
    /\ hist.navigated.written
    /\ \E i \in DOMAIN storage.steps : storage.steps[i].ev = hist.navigated.ev

\* the Steps in memory and in storage
StepsOf(st, sto) ==
    {st.steps[i] : i \in DOMAIN st.steps} \cup {sto.steps[i] : i \in DOMAIN sto.steps}

(***************************************************************************)
(* C3: every Step of a click that willNavigate judged navigation-causing,  *)
(* on the link path or on the ordinary captureStep path, carries the URL   *)
(* and title the page had when the click was handled.                      *)
(***************************************************************************)
C3_UrlAtClickTime ==
    \A s \in StepsOf(state, storage) :
        (s.action = "click" /\ willNavigate(s.target, s.evUrl).willNavigate) =>
            (s.url = s.evUrl /\ s.title = s.evTitle)

C6_ForeignContextIgnores ==
    [][(/\ state.isRecording
        /\ knownForeign(state)
        /\ hist'.evs > hist.evs
        /\ hist'.last.kind \in {"click", "input", "change", "submit", "navigation"}) =>
          /\ state'.steps = state.steps
          /\ state'.stepCounter = state.stepCounter
          /\ storage'.steps = storage.steps
          /\ captures' = captures
          /\ requests' = requests
          /\ inputTimers' = inputTimers
          /\ ~hist'.last.accepted]_vars

\* a recording context that knows it is foreign has handled an event
C6_ForeignEvent ==
    /\ state.isRecording
    /\ knownForeign(state)
    /\ hist.last.foreign
    /\ hist.last.kind \in {"click", "input", "change", "submit", "navigation"}

(***************************************************************************)
(* C7: whatever the backend does with a capture request (image, null,      *)
(* runtime error, no answer), a captureStep call that reached its          *)
(* screenshot function ends with its Step appended to the log, and a Step  *)
(* of the log carries a screenshot only if the backend answered one of     *)
(* that capture's requests with that image.                                *)
(***************************************************************************)
C7_AcquisitionTerminates ==
    /\ \A e \in 1..(MaxShots + MaxStarts) :
           (\E c \in captures : c.ev = e /\ c.path = "plain" /\ c.pc = "shot")
              ~> (e \in hist.live /\ \A c \in captures : c.ev # e)
    /\ [](\A i \in DOMAIN state.steps :
             state.steps[i].screenshot # NoShot
                => [ev |-> state.steps[i].ev, att |-> state.steps[i].screenshot.req]
                       \in hist.imaged)

\* a page_load Step appended without screenshot after every attempt failed, the
\* last request never answered, next to a Step with its image
C7_AllAttemptsFailed ==
    /\ \E i \in DOMAIN state.steps :
          /\ state.steps[i].action = "page_load"
          /\ state.steps[i].screenshot = NoShot
    /\ \E i \in DOMAIN state.steps : state.steps[i].screenshot # NoShot
    /\ hist.faults >= maxAttempts
    /\ requests # {}
(***************************************************************************)
(* C8: a Step appended to the steps of the session stays there until the   *)
(* state store is reset by the next startRecording, and once no capture is *)
(* in flight and no write was rejected the persisted steps hold it too;    *)
(* two overlapping captures leave both their Steps.                        *)
(***************************************************************************)
C8_AppendedStepsStay ==
    /\ \A e \in hist.live : \E i \in DOMAIN state.steps : state.steps[i].ev = e
    /\ captures = {} /\ hist.faults = 0
          => \A e \in hist.live : \E i \in DOMAIN storage.steps : storage.steps[i].ev = e
(***************************************************************************)
(* C9: the screenshot of a Step of the log never changes, and the          *)
(* screenshot of a capture in flight is set once, by the answer to the     *)
(* attempt then pending: an answer to a request that timed out, or that    *)
(* arrives after a later attempt got its image, sets and replaces nothing. *)
(***************************************************************************)
C9_ScreenshotSetOnce ==
    [][/\ \A i \in DOMAIN state.steps : \A j \in DOMAIN state'.steps :
              state.steps[i].ev = state'.steps[j].ev
                 => state'.steps[j].screenshot = state.steps[i].screenshot
       /\ \A c \in captures : \A c1 \in captures' :
              c.ev = c1.ev /\ c1.screenshot # c.screenshot
                 => c.screenshot = NoShot /\ c1.screenshot.req = c.att
       /\ \A c \in captures : \A j \in DOMAIN state'.steps :
              /\ c.ev = state'.steps[j].ev
              /\ state'.steps[j].screenshot # c.screenshot
              => c.screenshot = NoShot /\ state'.steps[j].screenshot.req = c.att]_vars

\* an image came for a request that had timed out, and the Step of that capture
\* is in the log with the image of a later attempt or with none
C9_LateImage ==
    \E r \in hist.imaged : \E i \in DOMAIN state.steps :
        /\ state.steps[i].ev = r.ev
        /\ state.steps[i].screenshot.req # r.att
(***************************************************************************)
(* C10: in a page that was not left or reloaded, the Steps of the log      *)
(* carry sequence numbers in the order in which their events were          *)
(* accepted, a navigation-causing link click followed by another event     *)
(* during its capture request included.                                    *)
(***************************************************************************)
C10_SequenceFollowsArrival ==
    hist.load = 0
       => \A i, j \in DOMAIN state.steps :
              state.steps[i].ev < state.steps[j].ev => state.steps[i].id < state.steps[j].id
(***************************************************************************)
(* C11: after an accepted click on a link that navigates, whatever the     *)
(* backend does with the capture request and whether or not the write of   *)
(* the steps succeeds, the Step of the click is appended and the           *)
(* navigation to the link's href is performed.                             *)
(***************************************************************************)
C11_LinkClickNavigates ==
    \A e \in 1..(MaxLinkClicks + MaxStarts + MaxLinkClicks) :
        (\E c \in captures : c.ev = e /\ c.path = "link" /\ c.pc = "preshot")
           ~> (hist.navigated.ev = e /\ hist.navigated.appended)
(***************************************************************************)
(* C12: a navigation or page_load capture issues at most maxAttempts       *)
(* requests, one at a time; it issues the next one only when the pending   *)
(* one was answered without an image, with an error, or timed out; and     *)
(* when it ends its Step is in the log, with the image of the request      *)
(* answered last or, after maxAttempts failures, without screenshot.       *)
(* (An image that comes for a request after its timeout is no answer to    *)
(* the capture: the request has failed.)                                   *)
(***************************************************************************)
C12_AtMostThreeAttempts ==
    [][\A c \in captures :
          c.action \in {"navigation", "page_load"} /\ c.pc = "shot"
          => /\ c.att \in 1..maxAttempts
             /\ \A c1 \in captures' :
                    c1.ev = c.ev /\ c1 # c
                    => /\ c1.att = c.att + 1
                       /\ c1.att <= maxAttempts
                       /\ c1.screenshot = NoShot
                       /\ Request(c) \notin hist'.imaged
             /\ (\A c1 \in captures' : c1.ev # c.ev)
                    => \E j \in DOMAIN state'.steps :
                          /\ state'.steps[j].ev = c.ev
                          /\ state'.steps[j].screenshot # NoShot <=> Request(c) \in hist'.imaged
                          /\ state'.steps[j].screenshot = NoShot => c.att = maxAttempts]_vars

\* a navigation Step appended without screenshot after three requests that all
\* failed, no image having come at all
C12_ThreeFailures ==
    /\ \E i \in DOMAIN state.steps :
          /\ state.steps[i].action = "navigation"
          /\ state.steps[i].screenshot = NoShot
          /\ \A a \in 1..maxAttempts : [ev |-> state.steps[i].ev, att |-> a] \notin hist.imaged
    /\ hist.faults >= maxAttempts
(***************************************************************************)
(* C13: every accepted click for which willNavigate reports a navigation   *)
(* is captured on the branch of the click handler that calls               *)
(* preventDefault and stopPropagation first (the link branch), never on    *)
(* the ordinary captureStep branch, which leaves the default action to     *)
(* the browser.                                                            *)
(***************************************************************************)
C13_DefaultSuppressed ==
    \A c \in captures :
        c.action = "click" /\ willNavigate(c.target, c.evUrl).willNavigate
           => c.path = "link"
(***************************************************************************)
(* C14: once an owner tab id is recorded, in the state store or in         *)
(* storage, a Step is appended only by a context that knows its own tab    *)
(* id and found it equal to the owner's: with its own id unknown the       *)
(* context is not taken for the owner.                                     *)
(***************************************************************************)
C14_OwnershipNotAssumed ==
    [][/\ hist'.live \ hist.live # {}
       /\ state.recordingTabId # NoTab \/ storage.recordingTabId # NoTab
       => /\ state.currentTabId # NoTab
          /\ state.currentTabId \in {state.recordingTabId, storage.recordingTabId}]_vars
(***************************************************************************)
(* C15: an input Step is produced only for the last input event of its     *)
(* field, no sooner than InputDebounceMs after that event, once, with the  *)
(* value the field has at that moment cut to ValueLimit characters, and    *)
(* without touching the timer of another field; and the last input event   *)
(* of a field has its timer pending until its Step is produced.            *)
(***************************************************************************)
Produced(e) == e \in hist.live \/ \E c \in captures : c.ev = e

InitForm ==
    \E tab \in Tabs :
        Injected([events |-> MaxFormEvents, faults |-> 0, captures |-> 1, time |-> MaxTime,
              starts |-> MaxStarts, script |-> "modules"], tab)

NextForm ==
    \/ \E d \in TickSteps : Tick(d)
    \/ PopupStart
    \/ \E s \in SenderTabs : OnStartRecording(s)
    \/ OnCurrentTabId
    \/ OnLoadStorage
    \/ handleClick("div", 0, 0)
    \/ \E t \in Fields : handleChange(t)
    \/ \E t \in FormTargets : handleSubmit(t)
    \/ \E u \in Urls : PushState(u)
    \/ PageLoadTimerFires
    \/ \E c \in captures : CheckReturns(c)
    \/ \E r \in requests : BackendResponds(r, "image")

SpecForm == InitForm /\ [][NextForm]_vars

LoadDelays == {PageLoadSkipMs - 1, PageLoadSkipMs}

\* the new document takes d ms to load and to have its storage callback run
LoadDelay(d) ==
    /\ boot = "pending"
    /\ now + d <= StartTime + hist.budget.time
    /\ now' = now + d
    /\ UNCHANGED <<state, storage, url, title, fieldValue, calls, dom, ownTab, boot, tabIdReq, listening,
                   historyHooks, inbox, inputTimers, pageLoadTimer, captures,
                   storageReads, requests, hist>>

InitLoad ==
    Injected([events |-> MaxLoadClicks, faults |-> MaxReloads, captures |-> 1,
              time |-> MaxLoadTime,
              starts |-> MaxStarts, script |-> "modules"], OwnerTab)

NextLoad ==
    \/ \E d \in LoadDelays : LoadDelay(d)
    \/ PopupStart
    \/ \E s \in SenderTabs : OnStartRecording(s)
    \/ OnCurrentTabId
    \/ OnLoadStorage
    \/ \E t \in {"link", "formbtn"} : handleClick(t, 0, 0)
    \/ PageLoadTimerFires
    \/ \E c \in captures : CheckReturns(c)
    \/ \E r \in requests : BackendResponds(r, "image")
    \/ \E c \in captures : SaveSettles(c)
    \/ \E c \in captures : Navigate(c)
    \/ Reload(url)

SpecLoad == InitLoad /\ [][NextLoad]_vars

(***************************************************************************)
(* C18: when the storage callback of a new document finds isRecording      *)
(* persisted, the page_load capture is left out exactly when the persisted *)
(* navigation flag is set and its time is positive and less than           *)
(* PageLoadSkipMs old; leaving it out clears the persisted flag and time,  *)
(* and the flag is set again only by a click that is accepted afterwards,  *)
(* so one click leaves out the page_load of one load at most.              *)
(***************************************************************************)
C18_PageLoadSkippedOnce ==
    /\ [][(/\ boot = "pending" /\ boot' = "done"
           /\ storage.isRecording
           /\ ~state.isRecording
           /\ ~(/\ storage.recordingTabId # NoTab
                /\ state.currentTabId # NoTab
                /\ storage.recordingTabId # state.currentTabId))
          => LET skip == /\ storage.clickCausedNavigation
                         /\ storage.navigationClickTime > 0
                         /\ now - storage.navigationClickTime < PageLoadSkipMs
             IN  /\ state'.isRecording
                 /\ pageLoadTimer' <=> ~skip
                 /\ skip => /\ ~storage'.clickCausedNavigation
                             /\ storage'.navigationClickTime = 0]_vars
    /\ [][(storage'.clickCausedNavigation /\ ~storage.clickCausedNavigation)
          => /\ hist'.evs = hist.evs + 1
             /\ hist'.last.kind = "click"
             /\ hist'.last.accepted]_vars

\* a second load after the one whose page_load the click left out: the page_load
\* of the second load is captured
C18_SecondLoadCaptured ==
    /\ hist.load = 2
    /\ hist.skipped = 1
    /\ now < StartTime + PageLoadSkipMs
    /\ boot = "done"
    /\ ~storage.clickCausedNavigation
    /\ \E i, j \in DOMAIN state.steps :
          /\ i < j
          /\ state.steps[i].action = "click" /\ state.steps[i].target = "link"
          /\ state.steps[j].action = "page_load"

(***************************************************************************)
(* Starting and stopping are exercised in the owner's page from its        *)
(* injection on: the popup starts, stops and starts again, with events of  *)
(* every kind before, between and after, a backend that always answers and *)
(* one capture at a time.                                                  *)
(***************************************************************************)
\* a DOM event is dispatched while the handlers of the recorder are detached
NotHeard(kind, target) ==
    /\ ~listening
    /\ MoreEvents
    /\ hist' = Logged(kind, target, 0, 0, FALSE)
    /\ UNCHANGED <<calls, dom>>
    /\ fieldValue' = IF kind = "input"
                     THEN [fieldValue EXCEPT ![target] = TypedValue] ELSE fieldValue
    /\ UNCHANGED <<state, storage, url, title, ownTab, boot, tabIdReq, listening,
                   historyHooks, inbox, inputTimers, pageLoadTimer, captures,
                   storageReads, requests, now>>

InitSession ==
    Injected([events |-> MaxSessionEvents, faults |-> 0, captures |-> 1, time |-> 0,
              starts |-> MaxSessions, script |-> "modules"], OwnerTab)

NextSession ==
    \/ PopupStart
    \/ \E s \in SenderTabs : OnStartRecording(s)
    \/ OnCurrentTabId
    \/ OnLoadStorage
    \/ \E c \in captures : CheckReturns(c)
    \/ PopupStop
    \/ OnStopRecording
    \/ handleClick("div", 0, 0)
    \/ \E t \in FieldTargets : handleInput(t, TypedValue)
    \/ \E t \in FieldTargets : handleChange(t)
    \/ \E t \in FormTargets : handleSubmit(t)
    \/ NotHeard("click", "div")
    \/ \E t \in FieldTargets : NotHeard("input", t)
    \/ \E t \in FieldTargets : NotHeard("change", t)
    \/ \E t \in FormTargets : NotHeard("submit", t)
    \/ \E u \in Urls : PushState(u)
    \/ PageLoadTimerFires
    \/ \E r \in requests : BackendResponds(r, "image")

SpecSession == InitSession /\ [][NextSession]_vars

(***************************************************************************)
(* C19: startRecording on a store that is not recording returns a store    *)
(* that is recording with no steps, stepCounter 0, the click and action    *)
(* bookkeeping cleared, the navigation flag false and both tab ids as they *)
(* were, and attaches the listeners; on a store that is recording it       *)
(* returns the store, the listeners and the history hooks as they were.    *)
(* This holds of the call in every reachable state and of every handled    *)
(* startRecording message.                                                 *)
(***************************************************************************)
StartEffect(st0, r, lis, hooks, timer) ==
    IF st0.isRecording
    THEN /\ r.state = st0
         /\ r.listening = lis
         /\ r.historyHooks = hooks
         /\ r.pageLoadTimer = timer
    ELSE /\ r.state.isRecording
         /\ r.state.steps = <<>>
         /\ r.state.stepCounter = 0
         /\ r.state.lastClickTime = 0
         /\ r.state.lastClickTarget = Null
         /\ r.state.lastClickCoordinates = <<>>
         /\ r.state.lastActionTime = 0
         /\ r.state.lastActionType = Null
         /\ ~r.state.clickCausedNavigation
         /\ r.state.recordingTabId = st0.recordingTabId
         /\ r.state.currentTabId = st0.currentTabId
         /\ r.listening

C19_StartRecordingResets ==
    /\ [](\A skip \in BOOLEAN :
             StartEffect(state,
                         startRecording(state, skip, url, historyHooks, pageLoadTimer,
                                        listening),
                         listening, historyHooks, pageLoadTimer))
    /\ [][(inbox = "startRecording" /\ inbox' = "none")
          => StartEffect(state,
                         [state |-> state', listening |-> listening',
                          historyHooks |-> historyHooks',
                          pageLoadTimer |-> pageLoadTimer'],
                         listening, historyHooks, pageLoadTimer)]_vars

\* the second recording was started on a store that held the Steps and the
\* bookkeeping of the first
C19_RestartedClean ==
    /\ hist.sess = 2
    /\ inbox = "none"
    /\ state.isRecording
    /\ state.steps = <<>> /\ state.stepCounter = 0 /\ state.lastActionType = Null
    /\ hist.imaged # {}
    /\ captures = {}
    /\ pageLoadTimer

(***************************************************************************)
(* C20: once the popup has stopped the recording and the page has handled  *)
(* the stopRecording message, a click, input, change, submit or history    *)
(* event arriving in the page is not accepted and leaves the store, the    *)
(* persisted data, the captures, the capture requests and the timers as    *)
(* they are, until the next start; and stopRecording on a store that is    *)
(* not recording returns everything as it was.                             *)
(***************************************************************************)
C20_StoppedIgnores ==
    /\ [][(/\ hist.sess >= 1
           /\ ~storage.isRecording
           /\ inbox = "none"
           /\ hist'.evs = hist.evs + 1
           /\ hist'.last.kind \in {"click", "input", "change", "submit", "navigation"})
          => /\ ~hist'.last.accepted
             /\ state' = state
             /\ storage' = storage
             /\ captures' = captures
             /\ requests' = requests
             /\ inputTimers' = inputTimers
             /\ pageLoadTimer' = pageLoadTimer]_vars
    /\ [](~state.isRecording
            => stopRecording(state, historyHooks, listening)
                 = [state |-> state, listening |-> listening,
                    historyHooks |-> historyHooks])

\* a change event arrived after the recording that holds Steps was stopped
C20_EventAfterStop ==
    /\ hist.sess >= 1
    /\ ~storage.isRecording
    /\ inbox = "none"
    /\ ~state.isRecording
    /\ state.steps # <<>>
    /\ hist.last.kind = "change"
    /\ ~hist.last.accepted

(***************************************************************************)
(* The background's captureScreenshot listener is exercised by the page of *)
(* either tab, with a recording started by either popup of the repository  *)
(* (one writes recordingTabId, one does not) and every capture outcome.    *)
(***************************************************************************)
InitBackground ==
    \E tab \in Tabs :
        Injected([events |-> MaxBackgroundEvents, faults |-> MaxFaults, captures |-> 1,
                  time |-> 0, starts |-> MaxStarts, script |-> "modules"], tab)

NextBackground ==
    \/ PopupStart
    \/ PopupStartPlain
    \/ \E s \in SenderTabs : OnStartRecording(s)
    \/ OnCurrentTabId
    \/ OnLoadStorage
    \/ handleClick("div", 0, 0)
    \/ \E t \in FieldTargets : handleChange(t)
    \/ PageLoadTimerFires
    \/ \E c \in captures : CheckReturns(c)
    \/ \E r \in requests, out \in Outcomes : BackendResponds(r, out)

SpecBackground == InitBackground /\ [][NextBackground]_vars

(***************************************************************************)
(* C21: the background calls captureScreenshot(tabId) for a request, and   *)
(* answers it with an image, only when the sender's tab is the recorded    *)
(* owner; a request from another tab or one made while no owner is         *)
(* recorded is answered null without a capture.                            *)
(***************************************************************************)
C21_CaptureOnlyForOwner ==
    [][\A r \in requests :
          (r \notin requests' /\ storage.recordingTabId # ownTab)
             => /\ r \notin hist'.attempted
                /\ r \notin hist'.imaged]_vars

(***************************************************************************)
(* The background's chrome.runtime.onMessage listener, one record of calls *)
(* per message it received: the action, the sender's tab, the callback or  *)
(* promise the handling waits for (pc) and the responses passed to         *)
(* sendResponse so far (sent).                                             *)
(***************************************************************************)
\* async captureScreenshot(tabId) of the background: the value it resolves to,
\* run being what chrome.tabs.get and the two captureVisibleTab calls do
captureScreenshot(run) ==
    IF run.get = "none" THEN Null
    ELSE IF run.get = "tab" /\ run.first # "throws"
         THEN (IF run.first = "image" THEN "image" ELSE Null)
         ELSE (IF run.second = "image" THEN "image" ELSE Null)

sendResponse(m, response) == [m EXCEPT !.sent = Append(@, response), !.pc = "done"]

\* the listener's body up to its `return true`
listener(id, action, sender) ==
    LET m == [id |-> id, action |-> action, sender |-> sender,
              pc |-> "listener", sent |-> <<>>]
    IN  IF action = "captureScreenshot"
        THEN (IF sender # NoTab THEN [m EXCEPT !.pc = "storage"]
              ELSE sendResponse(m, Null))
        ELSE (IF sender # NoTab THEN sendResponse(m, sender)
              ELSE [m EXCEPT !.pc = "query"])

\* the storage callback without the `return` of its mismatch branch
storageCallbackNoReturn(m, sto) ==
    IF sto.recordingTabId # NoTab /\ sto.recordingTabId # m.sender
    THEN [sendResponse(m, Null) EXCEPT !.pc = "capture"]
    ELSE [m EXCEPT !.pc = "capture"]

\* the callback of chrome.storage.local.get(['recordingTabId'])
storageCallback(m, sto) ==
    IF sto.recordingTabId # NoTab /\ sto.recordingTabId # m.sender
    THEN sendResponse(m, Null)
    ELSE [m EXCEPT !.pc = "capture"]

\* a message reaches the listener, which runs up to its `return true`
MessageArrives(action, sender) ==
    /\ Cardinality(calls) < MaxMessages
    /\ calls' = calls \cup {listener(Cardinality(calls) + 1, action, sender)}
    /\ UNCHANGED <<state, storage, url, title, fieldValue, dom, ownTab, boot, tabIdReq, listening,
                   historyHooks, inbox, inputTimers, pageLoadTimer, captures, storageReads,
                   requests, now, hist>>

StorageReturns(m) ==
    /\ m.pc = "storage"
    /\ calls' = (calls \ {m}) \cup {storageCallback(m, storage)}
    /\ UNCHANGED <<state, storage, url, title, fieldValue, dom, ownTab, boot, tabIdReq, listening,
                   historyHooks, inbox, inputTimers, pageLoadTimer, captures, storageReads,
                   requests, now, hist>>

\* the promise of captureScreenshot(tabId) resolves and its then-handler runs
CaptureSettles(m, run) ==
    /\ m.pc = "capture"
    /\ calls' = (calls \ {m}) \cup {sendResponse(m, captureScreenshot(run))}
    /\ UNCHANGED <<state, storage, url, title, fieldValue, dom, ownTab, boot, tabIdReq, listening,
                   historyHooks, inbox, inputTimers, pageLoadTimer, captures, storageReads,
                   requests, now, hist>>

\* the callback of chrome.tabs.query: tab is tabs[0]?.id, NoTab when there is none
QueryReturns(m, tab) ==
    /\ m.pc = "query"
    /\ calls' = (calls \ {m}) \cup {sendResponse(m, IF tab # NoTab THEN tab ELSE Null)}
    /\ UNCHANGED <<state, storage, url, title, fieldValue, dom, ownTab, boot, tabIdReq, listening,
                   historyHooks, inbox, inputTimers, pageLoadTimer, captures, storageReads,
                   requests, now, hist>>

\* the callbacks and promises of the browser the background waits for
BrowserSettles ==
    \/ \E m \in calls : StorageReturns(m)
    \/ \E m \in calls :
          \E run \in [get : {"tab", "none", "throws"},
                      first : {"image", "empty", "throws"},
                      second : {"image", "empty", "throws"}] : CaptureSettles(m, run)
    \/ \E m \in calls, tab \in Tabs \cup {NoTab} : QueryReturns(m, tab)

InitListener ==
    \E tab \in Tabs :
        Injected([events |-> 0, faults |-> 0, captures |-> 0, time |-> 0,
                  starts |-> MaxStarts, script |-> "modules"], tab)

NextListener ==
    \/ PopupStart
    \/ PopupStartPlain
    \/ \E a \in {"captureScreenshot", "getCurrentTabId"}, s \in Tabs \cup {NoTab} :
          MessageArrives(a, s)
    \/ BrowserSettles

\* the browser calls every callback and settles every promise it was handed
SpecListener == InitListener /\ [][NextListener]_vars /\ WF_vars(BrowserSettles)

(***************************************************************************)
(* C22: every captureScreenshot and getCurrentTabId message the background *)
(* received is answered: sendResponse is never called twice for it, and it *)
(* is eventually called once, whatever the sender, the recorded owner and  *)
(* the outcome of the capture or of the tab query.                         *)
(***************************************************************************)
C22_AnsweredExactlyOnce ==
    /\ [](\A m \in calls : Len(m.sent) = (IF m.pc = "done" THEN 1 ELSE 0))
    /\ \A id \in 1..MaxMessages :
          (\E m \in calls : m.id = id) ~> (\E m \in calls : m.id = id /\ Len(m.sent) = 1)

\* both messages were answered, one on the owner-mismatch path and one by
\* the fallback query
C22_MismatchAndFallbackAnswered ==
    /\ \E m \in calls : /\ m.action = "captureScreenshot"
                        /\ m.sender # NoTab
                        /\ m.sender # storage.recordingTabId
                        /\ storage.recordingTabId # NoTab
                        /\ m.sent = <<Null>>
    /\ \E m \in calls : /\ m.action = "getCurrentTabId"
                        /\ m.sender = NoTab
                        /\ Len(m.sent) = 1

(***************************************************************************)
(* C23: when the chrome.storage.local.set of an append is rejected, the    *)
(* Step just pushed is the last of the in-memory steps, after the steps it *)
(* was appended to with their ids, the counter that gave its id is not     *)
(* taken back, the persisted steps are as before, and the call ends there: *)
(* when the rejection reaches the link branch in its page, the branch does *)
(* not go on to its navigation timer.                                      *)
(***************************************************************************)
C23_WriteFailureKeepsStep ==
    [][/\ \A e \in hist'.rejected \ hist.rejected :
             \E c \in captures :
                /\ c.ev = e
                /\ state'.steps # <<>>
                /\ state'.steps[Len(state'.steps)].ev = e
                /\ state'.stepCounter
                      = (IF c.pc = "shot" THEN state.stepCounter
                         ELSE state'.steps[Len(state'.steps)].id)
                /\ state'.stepCounter >= state.stepCounter
                /\ SubSeq(state'.steps, 1, Len(state'.steps) - 1)
                      = (IF c.pc = "shot" THEN c.snap ELSE state.steps)
                /\ storage'.steps = storage.steps
       /\ \A c \in captures :
             (/\ c.pc = "save" /\ ~c.saveOk
              /\ c \notin captures' /\ hist'.load = hist.load)
                => /\ \A cc \in captures' : cc.ev # c.ev
                   /\ state'.steps = state.steps
                   /\ state'.stepCounter = state.stepCounter]_vars

\* the write of a Step was rejected while an earlier Step is persisted: the
\* in-memory steps hold both, the persisted steps only the earlier one
C23_RejectedStepInMemory ==
    /\ hist.rejected # {}
    /\ Len(storage.steps) = 1
    /\ Len(state.steps) = 2
    /\ state.steps[2].ev \in hist.rejected
    /\ state.stepCounter = 2

(***************************************************************************)
(* C24: at any time at most one capture request of one Step is pending at  *)
(* the background: the retry loop of a navigation or page_load Step sends  *)
(* no request while an earlier request of that Step is unanswered.         *)
(***************************************************************************)
C24_OneRequestPerStep ==
    \A r1 \in requests, r2 \in requests : r1.ev = r2.ev => r1 = r2

(***************************************************************************)
(* SpecContentTs is the owner's page running src/src/content.ts, whose     *)
(* captureStep pushes onto the script's steps array when its screenshot    *)
(* settled: clicks, changes and history calls whose captures overlap, and  *)
(* every answer of the backend.                                            *)
(***************************************************************************)
InitContentTs ==
    Injected([events |-> MaxContentEvents, faults |-> MaxFaults, captures |-> MaxCaptures,
              time |-> 0, starts |-> MaxStarts, script |-> "content.ts"], OwnerTab)

NextContentTs ==
    \/ PopupStart
    \/ \E s \in SenderTabs : OnStartRecording(s)
    \/ OnCurrentTabId
    \/ OnLoadStorage
    \/ handleClick("div", 0, 0)
    \/ \E t \in FieldTargets : handleChange(t)
    \/ \E u \in Urls : PushState(u)
    \/ PageLoadTimerFires
    \/ \E c \in captures : CheckReturns(c)
    \/ \E r \in requests, out \in Outcomes : BackendResponds(r, out)

SpecContentTs == InitContentTs /\ [][NextContentTs]_vars

(***************************************************************************)
(* C25: steps is in completion order.  No operation moves a Step of the    *)
(* in-memory or of the persisted steps before a Step it stood behind, and  *)
(* the Step of a capture enters the in-memory steps at the end, whatever   *)
(* its id.                                                                 *)
(***************************************************************************)
C25_CompletionOrder ==
    [][/\ \A i, j \in DOMAIN state.steps : \A k, l \in DOMAIN state'.steps :
             (i < j /\ state'.steps[k].ev = state.steps[i].ev
                    /\ state'.steps[l].ev = state.steps[j].ev) => k < l
       /\ \A i, j \in DOMAIN storage.steps : \A k, l \in DOMAIN storage'.steps :
             (i < j /\ storage'.steps[k].ev = storage.steps[i].ev
                    /\ storage'.steps[l].ev = storage.steps[j].ev) => k < l
       /\ \A c \in captures : \A k \in DOMAIN state'.steps :
             (/\ state'.steps[k].ev = c.ev
              /\ c.pc \in {"check", "shot", "preshot"}
              /\ \A i \in DOMAIN state.steps : state.steps[i].ev # c.ev)
                => k = Len(state'.steps)]_vars

\* a navigation Step took id 1 and a click Step id 2, and the click stands
\* first in the in-memory and in the persisted steps
C25_LaterStepFirst ==
    /\ Len(state.steps) = 2
    /\ state.steps[1].id = 2 /\ state.steps[1].action = "click"
    /\ state.steps[2].id = 1 /\ state.steps[2].action = "navigation"
    /\ storage.steps = state.steps
    /\ state.stepCounter = 2

(***************************************************************************)
(* generateSelector.  A string is the sequence of its characters; an       *)
(* element of the document is [tagName, id, className, parent], the        *)
(* elements stand in document order and parent 0 is the html element.      *)
(* querySelectorAll is the browser's: it parses the selector as CSS, an    *)
(* identifier starting with a letter or an escape and going on with        *)
(* letters, digits and escapes, an escape standing for the character after *)
(* the backslash, and throws on anything else.                             *)
(***************************************************************************)
Letters == {"a", "b", "p"}
Digits == {"1"}

toLowerCase(tagName) == IF tagName = "P" THEN "p" ELSE "b"

\* String.prototype.split(' ')
RECURSIVE split(_)
split(s) ==
    IF s = <<>> THEN << <<>> >>
    ELSE LET rest == split(Tail(s))
         IN  IF Head(s) = " " THEN << <<>> >> \o rest
             ELSE << <<Head(s)>> \o Head(rest) >> \o Tail(rest)

\* Array.prototype.join
RECURSIVE join(_, _)
join(parts, sep) ==
    IF parts = <<>> THEN <<>>
    ELSE IF Len(parts) = 1 THEN Head(parts)
    ELSE Head(parts) \o sep \o join(Tail(parts), sep)

\* className.replace(/[^a-zA-Z0-9_-]/g, '\\$&')
RECURSIVE escapeClassName(_)
escapeClassName(className) ==
    IF className = <<>> THEN <<>>
    ELSE (IF Head(className) \in Letters \cup Digits \cup {"_", "-"}
          THEN <<Head(className)>> ELSE <<"\\", Head(className)>>)
            \o escapeClassName(Tail(className))

\* the CSS identifier of s that starts at i: its name, and where it ends
RECURSIVE ident(_, _, _)
ident(s, i, name) ==
    IF i <= Len(s) /\ s[i] \in Letters \cup (IF name = <<>> THEN {} ELSE Digits)
    THEN ident(s, i + 1, Append(name, s[i]))
    ELSE IF i < Len(s) /\ s[i] = "\\" THEN ident(s, i + 2, Append(name, s[i + 1]))
    ELSE [name |-> name, next |-> i]

\* the compound selector of s from i on: #id and .class parts after the tag
RECURSIVE compound(_, _, _)
compound(s, i, parsed) ==
    IF i > Len(s) THEN parsed
    ELSE LET part == ident(s, i + 1, <<>>)
         IN  IF s[i] \notin {"#", "."} \/ part.name = <<>>
             THEN [parsed EXCEPT !.throws = TRUE]
             ELSE compound(s, part.next,
                           IF s[i] = "#" THEN [parsed EXCEPT !.ids = @ \cup {part.name}]
                           ELSE [parsed EXCEPT !.classes = @ \cup {part.name}])

\* document.querySelectorAll(selector): the matching elements in document
\* order, or throws for a selector that is not CSS
querySelectorAll(doc, selector) ==
    LET tag == ident(selector, 1, <<>>)
        parsed == compound(selector, tag.next,
                           [throws |-> selector = <<>>, tag |-> tag.name,
                            ids |-> {}, classes |-> {}])
        classList(e) == {split(doc[e].className)[k] : k \in DOMAIN split(doc[e].className)}
        matches(e) == /\ parsed.tag \in {<<>>, <<toLowerCase(doc[e].tagName)>>}
                      /\ \A id \in parsed.ids : doc[e].id = id
                      /\ parsed.classes \subseteq classList(e)
    IN  [throws |-> parsed.throws,
         matches |-> IF parsed.throws THEN <<>>
                     ELSE SelectSeq([e \in DOMAIN doc |-> e], matches)]

\* the `while (current && current.tagName !== 'HTML')` loop of generateSelector
RECURSIVE path(_, _, _)
path(doc, current, steps) ==
    IF current = 0 THEN steps
    ELSE LET tag == <<toLowerCase(doc[current].tagName)>>
             nth == 1 + Cardinality({s \in 1..(current - 1) :
                                        /\ doc[s].parent = doc[current].parent
                                        /\ doc[s].tagName = doc[current].tagName})
         IN  IF doc[current].id # <<>>
             THEN <<tag \o <<"#">> \o doc[current].id>> \o steps
             ELSE path(doc, doc[current].parent,
                       <<tag \o (IF nth > 1 THEN <<":nth-of-type(", ToString(nth), ")">>
                                 ELSE <<>>)>> \o steps)

\* generateSelector without the test of what its class selector matches
generateSelectorUnvalidated(doc, element) ==
    LET nonEmpty(c) == c # <<>>
        tokens == SelectSeq(split(doc[element].className), nonEmpty)
        classList == SelectSeq([k \in DOMAIN tokens |-> escapeClassName(tokens[k])], nonEmpty)
        selector == <<toLowerCase(doc[element].tagName)>> \o <<".">> \o join(classList, <<".">>)
    IN  IF doc[element].id # <<>> THEN <<"#">> \o doc[element].id
        ELSE IF doc[element].className # <<>> /\ classList # <<>>
        THEN selector
        ELSE join(path(doc, element, <<>>), <<" > ">>)

generateSelector(doc, element) ==
    LET nonEmpty(c) == c # <<>>
        tokens == SelectSeq(split(doc[element].className), nonEmpty)
        classList == SelectSeq([k \in DOMAIN tokens |-> escapeClassName(tokens[k])], nonEmpty)
        selector == <<toLowerCase(doc[element].tagName)>> \o <<".">> \o join(classList, <<".">>)
        found == querySelectorAll(doc, selector)
    IN  IF doc[element].id # <<>> THEN <<"#">> \o doc[element].id
        ELSE IF /\ doc[element].className # <<>>
                /\ classList # <<>>
                /\ ~found.throws
                /\ found.matches = <<element>>
        THEN selector
        ELSE join(path(doc, element, <<>>), <<" > ">>)

\* getElementInfo(element): the selector of the Step's element
getElementInfo(element) ==
    /\ element \in DOMAIN dom.doc
    /\ dom' = [dom EXCEPT !.element = element,
                          !.selector = generateSelector(dom.doc, element)]
    /\ UNCHANGED <<state, storage, url, title, fieldValue, calls, ownTab, boot, tabIdReq,
                   listening, historyHooks, inbox, inputTimers, pageLoadTimer, captures,
                   storageReads, requests, now, hist>>

(***************************************************************************)
(* SpecSelector: every document of up to MaxElements elements with the     *)
(* ids and class attributes below, and getElementInfo on each element.     *)
(***************************************************************************)
InitSelector ==
    /\ state = InitialState("u0")
    /\ storage = InitialStorage
    /\ url = "u0"
    /\ title = TitleOf("u0")
    /\ fieldValue = [e \in Fields |-> NoValue]
    /\ calls = {}
    /\ ownTab = OwnerTab
    /\ boot = "pending"
    /\ tabIdReq = TRUE
    /\ listening = FALSE
    /\ historyHooks = 0
    /\ inbox = "none"
    /\ inputTimers = [e \in Fields |-> NoTimer]
    /\ pageLoadTimer = FALSE
    /\ captures = {}
    /\ storageReads = <<>>
    /\ requests = {}
    /\ now = StartTime
    /\ hist = InitialHist
    /\ \E n \in 1..MaxElements :
          \E doc \in [1..n -> [tagName : {"P", "B"},
                               id : {<<>>, <<"a">>, <<"a", ".", "b">>, <<"1">>},
                               className : {<<>>, <<"b">>, <<"1">>, <<"a", ".", "b">>,
                                            <<" ">>},
                               parent : 0..(MaxElements - 1)]] :
             /\ \A e \in 1..n : doc[e].parent < e
             /\ dom = [NoDocument EXCEPT !.doc = doc]

NextSelector == \E element \in 1..MaxElements : getElementInfo(element)

SpecSelector == InitSelector /\ [][NextSelector]_vars

(***************************************************************************)
(* C26: for an element whose id is unique in the document, the selector    *)
(* generateSelector returned, given to querySelectorAll, selects that      *)
(* element and no other, whatever the id.                                  *)
(***************************************************************************)
C26_IdSelectorRoundTrip ==
    LET e == dom.element
        found == querySelectorAll(dom.doc, dom.selector)
    IN  (/\ e # 0
         /\ dom.doc[e].id # <<>>
         /\ \A o \in DOMAIN dom.doc : o # e => dom.doc[o].id # dom.doc[e].id)
           => ~found.throws /\ found.matches = <<e>>

(***************************************************************************)
(* C30: for an element without id, generateSelector returns the tag and    *)
(* class selector only if querySelectorAll finds exactly that element with *)
(* it; otherwise, also when querySelectorAll throws, it returns the path:  *)
(* steps joined by " > ", the last one the element's tag, with             *)
(* :nth-of-type(n) exactly when n > 1 siblings of that tag precede or are  *)
(* the element, and an id on the first step only.                          *)
(***************************************************************************)
C30_SelectorFallback ==
    LET e == dom.element
        r == dom.selector
        found == querySelectorAll(dom.doc, r)
        last == CHOOSE k \in DOMAIN r :
                   /\ k = 1 \/ r[k - 1] = " > "
                   /\ \A j \in (k + 1)..Len(r) : r[j] # " > "
        earlier == \E s \in 1..(e - 1) : /\ dom.doc[s].parent = dom.doc[e].parent
                                         /\ dom.doc[s].tagName = dom.doc[e].tagName
    IN  (e # 0 /\ dom.doc[e].id = <<>>)
           => /\ r # <<>>
              /\ IF Len(r) >= 2 /\ r[2] = "."
                 THEN ~found.throws /\ found.matches = <<e>>
                 ELSE /\ r[last] = toLowerCase(dom.doc[e].tagName)
                      /\ (r[Len(r)] = ")") <=> earlier
                      /\ \A k \in DOMAIN r :
                            /\ r[k] = ":nth-of-type(" => r[k + 1] # "1"
                            /\ r[k] = "#" => k = 2

\* the class selector of the element is unparsable and the path was returned
C30_UnparsableClassFallsBack ==
    /\ dom.element = 2
    /\ dom.doc[2].id = <<>>
    /\ dom.doc[2].className = <<"1">>
    /\ dom.doc[1].tagName = dom.doc[2].tagName
    /\ dom.doc[2].parent = 0 /\ dom.doc[1].parent = 0
    /\ querySelectorAll(dom.doc, <<toLowerCase(dom.doc[2].tagName), ".", "1">>).throws
    /\ dom.selector = <<toLowerCase(dom.doc[2].tagName), ":nth-of-type(", "2", ")">>

(***************************************************************************)
(* C27: once the content script handled a startRecording message, its      *)
(* recordingTabId in memory and the persisted recordingTabId both equal    *)
(* the id of its own tab, with or without a sender tab on the message.     *)
(***************************************************************************)
C27_StartBindsOwner ==
    [][(inbox = "startRecording" /\ inbox' = "none")
          => /\ state'.recordingTabId = ownTab
             /\ storage'.recordingTabId = ownTab]_vars

C29_SingleAttempt ==
    [][LET single == {"click", "input", "change", "submit"}
           waiting(caps) == {c \in caps : c.action \in single /\ c.pc = "shot"}
           sent(ev) == {r \in requests' \ requests : r.ev = ev}
       IN  /\ \A c \in waiting(captures) : sent(c.ev) = {}
           /\ \A c \in waiting(captures') :
                  /\ c.att = 1
                  /\ (\A cc \in waiting(captures) : cc.ev # c.ev)
                         => sent(c.ev) = {[ev |-> c.ev, att |-> 1]}]_vars

\* the Step of a click, input, change or submit was appended without an image
\* after its timeout, and its one request is still pending at the background
C29_TimedOutStepHasOneRequest ==
    \E i \in DOMAIN state.steps :
        /\ state.steps[i].action \in {"click", "input", "change", "submit"}
        /\ state.steps[i].screenshot = NoShot
        /\ {r \in requests : r.ev = state.steps[i].ev}
              = {[ev |-> state.steps[i].ev, att |-> 1]}

(***************************************************************************)
(* The catch around getElementInfo in the click handler is exercised by    *)
(* its own specification: clicks on a plain element and on two elements    *)
(* whose id breaks the label lookup, one of them a submit button, and the  *)
(* clock, in the owner's booted page.                                      *)
(***************************************************************************)
NextLocator ==
    \/ \E d \in TickSteps : Tick(d)
    \/ PopupStart
    \/ \E s \in SenderTabs : OnStartRecording(s)
    \/ \E t \in {"div", "quoted", "quotedbtn"} : handleClick(t, 0, 0)
    \/ PageLoadTimerFires
    \/ \E r \in requests : BackendResponds(r, "image")

SpecLocator == InitDedup /\ [][NextLocator]_vars

(***************************************************************************)
(* C31: a click for which getElementInfo throws leaves the state store,    *)
(* the persisted state and the captures in flight as they were before the  *)
(* click.                                                                  *)
(***************************************************************************)
C31_LocatorFailureDropsClick ==
    [][(/\ hist'.evs = hist.evs + 1
        /\ hist'.last.kind = "click"
        /\ getElementInfoThrows(hist'.lastClick.target))
          => /\ state' = state
             /\ storage' = storage
             /\ captures' = captures
             /\ requests' = requests]_vars

(***************************************************************************)
(* C32: a click suppressed as a duplicate leaves the state store, the      *)
(* persisted state and the captures as they were; and a click on the       *)
(* element of the last accepted click, DuplicateMs or more after it, is    *)
(* accepted however many suppressed clicks came in between.                *)
(***************************************************************************)
C32_SuppressedClickChangesNothing ==
    [][(/\ hist'.evs = hist.evs + 1
        /\ hist'.last.kind = "click"
        /\ state.isRecording
        /\ isRecordingTab(state))
          => LET v == hist'.lastClick
             IN  /\ ~v.accepted
                    => /\ state' = state
                       /\ storage' = storage
                       /\ captures' = captures
                       /\ requests' = requests
                 /\ (v.prevIsLast /\ v.time - v.prev.time >= DuplicateMs)
                    => v.accepted]_vars

\* a click was suppressed by the proximity rule after the rapid-fire window had
\* passed, and the bookkeeping is still that of the accepted click before it
C32_SuppressedLate ==
    LET v == hist.lastClick
    IN  /\ hist.last.kind = "click"
        /\ state.isRecording
        /\ ~v.accepted
        /\ v.prevIsLast
        /\ v.time - v.prev.time >= RapidFireMs
        /\ state.lastClickTime = v.prev.time
        /\ state.lastActionTime = v.prev.time
        /\ state.lastClickCoordinates = <<v.prev.x, v.prev.y>>

(***************************************************************************)
(* C33: while the store is stopped after a recording, from the handling of *)
(* stopRecording until the next startRecording, neither the in-memory      *)
(* steps nor the persisted steps grow.                                     *)
(***************************************************************************)
C33_NoStepAfterStop ==
    [][(/\ hist.sess >= 1
        /\ ~state.isRecording
        /\ ~state'.isRecording)
          => /\ Len(state'.steps) <= Len(state.steps)
             /\ Len(storage'.steps) <= Len(storage.steps)]_vars

(***************************************************************************)
(* C34: while a session started by startRecording is recording, every Step *)
(* of the in-memory steps and of the persisted steps belongs to an event   *)
(* handled after that start.                                               *)
(***************************************************************************)
C34_StepsOfThisSession ==
    (state.isRecording /\ hist.sess >= 1)
       => /\ \A i \in DOMAIN state.steps : state.steps[i].ev > hist.started
          /\ \A i \in DOMAIN storage.steps : storage.steps[i].ev > hist.started

(***************************************************************************)
(* The click handler of content.ts in a page of another tab than the       *)
(* owner's, resumed from the persisted flag before it learned its tab id:  *)
(* clicks on a plain element, a link and a submit button.                  *)
(***************************************************************************)
InitForeignContentTs ==
    Injected([events |-> MaxEvents, faults |-> 0, captures |-> 1, time |-> MaxTime,
              starts |-> MaxStarts, script |-> "content.ts"], OtherTab)

NextForeignContentTs ==
    \/ \E d \in TickSteps : Tick(d)
    \/ PopupStart
    \/ OnCurrentTabId
    \/ OnLoadStorage
    \/ \E t \in {"div", "link", "formbtn"} : handleClick(t, 0, 0)
    \/ PageLoadTimerFires
    \/ \E c \in captures : CheckReturns(c)
    \/ \E r \in requests : BackendResponds(r, "image")
    \/ \E c \in captures : SaveSettles(c)
    \/ \E c \in captures : Navigate(c)

SpecForeignContentTs == InitForeignContentTs /\ [][NextForeignContentTs]_vars

(***************************************************************************)
(* C35: an event handled in a context that knows its tab id to differ from *)
(* the recorded owner's leaves chrome.storage.local as it is (steps,       *)
(* clickCausedNavigation, navigationClickTime) and does not take the link  *)
(* branch, which calls preventDefault.                                     *)
(***************************************************************************)
C35_ForeignContextIsInert ==
    [][(knownForeign(state) /\ hist'.evs > hist.evs)
          => /\ storage' = storage
             /\ \A c \in captures' \ captures : c.path # "link"]_vars

(***************************************************************************)
(* The navigation flag is exercised in the owner's page by clicks that     *)
(* never navigate by themselves: on a text field inside a form, which      *)
(* willNavigate reports as navigating, and on a link, whose default action *)
(* the handler prevents and whose navigation it performs itself.  Every    *)
(* Reload of this specification is therefore a reload by the user.         *)
(***************************************************************************)
NextFlag ==
    \/ \E d \in LoadDelays : LoadDelay(d)
    \/ PopupStart
    \/ \E s \in SenderTabs : OnStartRecording(s)
    \/ OnCurrentTabId
    \/ OnLoadStorage
    \/ \E t \in {"link", "field"} : handleClick(t, 0, 0)
    \/ PageLoadTimerFires
    \/ \E c \in captures : CheckReturns(c)
    \/ \E r \in requests : BackendResponds(r, "image")
    \/ \E c \in captures : SaveSettles(c)
    \/ \E c \in captures : Navigate(c)
    \/ Reload(url)

SpecFlag == InitLoad /\ [][NextFlag]_vars

(***************************************************************************)
(* C36: the load-time callback leaves out the page_load capture only in a  *)
(* document that the navigation of a click brought about, never in one     *)
(* that a reload by the user brought about.                                *)
(***************************************************************************)
C36_SkipOnlyAfterClickNavigation ==
    [][hist'.skipped > hist.skipped => hist.cause = "click"]_vars

(***************************************************************************)
(* C37: an accepted navigation clears the last click target, coordinates   *)
(* and time and makes itself the last action; and a click handled while    *)
(* recording in the owning context, when the latest accepted click or      *)
(* navigation is a navigation, is accepted whatever its target, point and  *)
(* time.                                                                   *)
(***************************************************************************)
C37_ClickAfterNavigationAccepted ==
    [][/\ (/\ hist'.evs = hist.evs + 1
            /\ hist'.last.kind = "navigation"
            /\ hist'.last.accepted)
          => /\ state'.lastClickTime = 0
             /\ state'.lastClickTarget = Null
             /\ state'.lastClickCoordinates = <<>>
             /\ state'.lastActionType = "navigation"
             /\ state'.lastActionTime = now
       /\ (/\ hist'.evs = hist.evs + 1
            /\ hist'.last.kind = "click"
            /\ state.isRecording
            /\ isRecordingTab(state)
            /\ hist.lastAcc > 0
            /\ \A t \in Elements : hist.accClick[t].ev # hist.lastAcc)
          => hist'.last.accepted]_vars

\* a click was accepted at the point, on the element and less than RapidFireMs
\* after an accepted click, with an accepted navigation between the two
C37_SameClickAfterNavigation ==
    LET v == hist.lastClick
    IN  /\ hist.last.kind = "click"
        /\ v.accepted
        /\ v.prev.ev > 0
        /\ ~v.prevIsLast
        /\ v.time - v.prev.time < RapidFireMs
        /\ v.x = v.prev.x /\ v.y = v.prev.y
        /\ hist.prevAction.kind = "navigation"

(***************************************************************************)
(* The popup's Clear Steps is exercised in the owner's booted page: change *)
(* and submit events, each captured, a backend that always answers, the    *)
(* popup clearing the persisted steps at any time.                         *)
(***************************************************************************)
NextClear ==
    \/ PopupStart
    \/ \E s \in SenderTabs : OnStartRecording(s)
    \/ \E t \in FieldTargets : handleChange(t)
    \/ \E t \in FormTargets : handleSubmit(t)
    \/ PageLoadTimerFires
    \/ \E r \in requests : BackendResponds(r, "image")
    \/ PopupClear

SpecClear == InitDedup /\ [][NextClear]_vars

(***************************************************************************)
(* C38: the persisted steps never hold a Step that the content script held *)
(* in memory when the popup cleared the persisted steps.                   *)
(***************************************************************************)
C38_ClearedStepsStayCleared ==
    \A i \in DOMAIN storage.steps : storage.steps[i].ev \notin hist.cleared

(***************************************************************************)
(* The history wrappers of content.ts are exercised in the owner's page:   *)
(* the popup starts, stops and starts again, and the page calls            *)
(* history.pushState before, between and after.                            *)
(***************************************************************************)
InitHooks ==
    Injected([events |-> MaxSessionEvents, faults |-> 0, captures |-> 1, time |-> 0,
              starts |-> MaxSessions, script |-> "content.ts"], OwnerTab)

NextHooks ==
    \/ PopupStart
    \/ \E s \in SenderTabs : OnStartRecording(s)
    \/ PopupStop
    \/ OnStopRecording
    \/ OnCurrentTabId
    \/ OnLoadStorage
    \/ \E u \in Urls : PushState(u)
    \/ PageLoadTimerFires
    \/ \E c \in captures : CheckReturns(c)
    \/ \E r \in requests : BackendResponds(r, "image")

SpecHooks == InitHooks /\ [][NextHooks]_vars

(***************************************************************************)
(* C39: history.pushState and history.replaceState carry one wrapper that  *)
(* calls the navigation handler while the store is recording and none      *)
(* while it is not, after any sequence of starts and stops.                *)
(***************************************************************************)
C39_HooksDoNotAccumulate ==
    historyHooks = IF state.isRecording THEN 1 ELSE 0

\* C16: a navigation event handled while recording in the owning context is
\* suppressed exactly when the URL equals the last observed URL or the most
\* recently accepted action of any kind was a navigation accepted less than
\* NavigationDedupMs earlier; otherwise it produces a navigation Step
C16_NavigationSuppression ==
    [][(/\ hist'.evs = hist.evs + 1
        /\ hist'.last.kind = "navigation"
        /\ historyHooks > 0
        /\ state.isRecording
        /\ isRecordingTab(state)
        /\ state.currentTabId = ownTab)
       => (hist'.last.accepted
             <=> ~(\/ url' = state.currentUrl
                   \/ /\ hist.lastAction.kind = "navigation"
                      /\ now - hist.lastAction.time < NavigationDedupMs))]_vars

====
